---- MODULE Spec2Model ----
(***************************************************************************)
(* Model of the migration engine of opav2 (automatizacion app):            *)
(*   - MigrationProcess._save_dataframe_to_destination  (per-unit save)    *)
(*   - MigrationProcess._process_excel_sheets_individually (sheet loop)    *)
(*   - MigrationProcess._process_sql_tables_individually   (table loop)    *)
(*   - utils.validators.normalize_value_by_type            (pure function) *)
(* The destination database is modelled as committed tables plus the       *)
(* working copy of the open pyodbc connection (autocommit off).            *)
(***************************************************************************)
EXTENDS Integers, Sequences, FiniteSets, TLC

\* ---------------------------------------------------------------- bounds
NumUnits == 2
MaxRows == 2

Units == 1..NumUnits

VARIABLES
    source_type,                \* 'excel' or 'sql' source of the process
    pc,                         \* position of the aggregator
    hoja_index,                 \* loop index of the sheet / table loop
    hojas_procesadas,           \* excel: entries of succeeded sheets
    hojas_con_error,            \* excel: entries of failed sheets
    total_registros_procesados, \* excel: consolidated row count
    tracker_hoja,               \* local: unit whose ProcessTracker is bound (0 = unbound)
    proceso_id_hoja,            \* local: process id returned by iniciar (0 = unbound)
    tracker_final,              \* per unit: how its tracker was finalized
    selected,                   \* names of the selected sheets / table keys, in order
    tablas_data,                \* sql: tables that reach the loop, in order
    tablas_exitosas,            \* sql: counter of saved tables
    tablas_con_error,           \* sql: list of extraction errors, later an int counter
    total_registros,            \* sql: rows extracted
    result,                     \* outcome returned by the aggregator
    spc,                        \* position inside _save_dataframe_to_destination
    unit,                       \* inputs of the unit being saved
    conn,                       \* pyodbc connection: none / open / closed
    cursor,                     \* pyodbc cursor: none / open / closed
    tables,                     \* committed destination tables
    tx,                         \* working copy seen by the open connection
    validated,                  \* none / ok / errors : validate_column_mappings of the unit
    ddl,                        \* DDL statements issued for the unit
    dropped_existing,           \* a DROP TABLE hit an existing table in this unit
    registros_insertados,       \* local counter of the save
    faults,                     \* steps of the save that failed for this unit
    save_result,                \* value returned by the save
    sql_columns,                \* column lists of the unit's CREATE TABLE and INSERT
    table_before,               \* the destination table as it was when the save was called
    nv_in,                      \* normalize_value_by_type: arguments
    nv_out,                     \* normalize_value_by_type: outcome
    nv_dt,                      \* normalize_value_by_type: what pd.to_datetime gave
    df_cells,                   \* normalize_dataframe_by_mappings: the column of df
    df_cfg,                     \* its entry in column_mappings
    df_applied,                 \* values the apply has produced so far
    df_result,                  \* the column of df_result
    df_warnings,                \* the warnings list
    df_log,                     \* conversion warnings written to the logger
    existing_names,             \* normalize_name: the caller's list of names
    name_call,                  \* the last call of normalize_name / validate_sheet_name
    inf_series,                 \* infer_sql_type: the column it is given
    inf_out,                    \* infer_sql_type: the dict it returns
    vs_in,                      \* validate_structure_before_execution: arguments
    vs_out,                     \* its (errores, advertencias, sugerencias)
    voc_in,                     \* a cell value given to profiler, validator, normalizer
    voc_out,                    \* what each of the three made of it
    status,                     \* run(): self.status of the process object
    saved_status,               \* run(): the status column of the saved row
    run_exit,                   \* run(): how it is leaving: none / returned / raised
    run_faults                  \* run(): steps of run() itself that raised

procVars == <<source_type, pc, hoja_index, hojas_procesadas, hojas_con_error,
              total_registros_procesados, tracker_hoja, proceso_id_hoja,
              tracker_final, selected, tablas_data, tablas_exitosas,
              tablas_con_error, total_registros, result>>
saveVars == <<spc, unit, conn, cursor, tables, tx, validated, ddl,
              dropped_existing, registros_insertados, faults, save_result,
              sql_columns, table_before>>
frameVars == <<df_cells, df_cfg, df_applied, df_result, df_warnings, df_log>>
nameVars == <<existing_names, name_call>>
inferVars == <<inf_series, inf_out>>
validateVars == <<vs_in, vs_out>>
vocVars == <<voc_in, voc_out>>
runVars == <<status, saved_status, run_exit, run_faults>>
utilVars == <<validateVars, vocVars, runVars>>
normVars == <<nv_in, nv_out, nv_dt, frameVars, nameVars, inferVars, utilVars>>
vars == <<procVars, saveVars, normVars>>


procRest == <<source_type, hoja_index, hojas_procesadas, hojas_con_error,
              total_registros_procesados, tracker_hoja, proceso_id_hoja,
              tracker_final, selected, tablas_data, tablas_exitosas,
              tablas_con_error, total_registros, result>>

\* ----------------------------------------------------------- characters
LowerLetters == {"a", "b", "c", "d", "e", "f", "g", "h", "i", "j", "k", "l", "m",
                 "n", "o", "p", "q", "r", "s", "t", "u", "v", "w", "x", "y", "z"}

DigitChars == "0123456789"

DigitSet == {"0", "1", "2", "3", "4", "5", "6", "7", "8", "9"}

\* the lowercase of each uppercase letter
LowerMap == [A |-> "a", B |-> "b", C |-> "c", D |-> "d", E |-> "e", F |-> "f",
              G |-> "g", H |-> "h", I |-> "i", J |-> "j", K |-> "k", L |-> "l",
              M |-> "m", N |-> "n", O |-> "o", P |-> "p", Q |-> "q", R |-> "r",
              S |-> "s", T |-> "t", U |-> "u", V |-> "v", W |-> "w", X |-> "x",
              Y |-> "y", Z |-> "z"]

CharAt(str, i) == SubSeq(str, i, i)

\* position of the character c in str, 0 when it is not there
IndexOf(c, str) ==
    IF \E i \in 1..Len(str) : CharAt(str, i) = c
    THEN CHOOSE i \in 1..Len(str) : CharAt(str, i) = c
    ELSE 0

\* str.isdigit() of one character
IsDigit(c) == c \in DigitSet

IsLowerLetter(c) == c \in LowerLetters

LowerChar(c) == IF c \in DOMAIN LowerMap THEN LowerMap[c] ELSE c

RECURSIVE StrLower(_)
\* str.lower(), by halves
StrLower(str) ==
    IF Len(str) <= 1 THEN LowerChar(str)
    ELSE LET h == Len(str) \div 2
         IN StrLower(SubSeq(str, 1, h)) \o StrLower(SubSeq(str, h + 1, Len(str)))

RECURSIVE IntToStr(_)
\* the counter inside the f-string
IntToStr(n) ==
    IF n < 10 THEN CharAt(DigitChars, n + 1)
    ELSE IntToStr(n \div 10) \o CharAt(DigitChars, (n % 10) + 1)

RECURSIVE ReplaceChar(_, _, _)
\* str.replace(a, b) for a single character a
ReplaceChar(str, a, b) ==
    IF Len(str) <= 1 THEN (IF str = a THEN b ELSE str)
    ELSE LET h == Len(str) \div 2
         IN ReplaceChar(SubSeq(str, 1, h), a, b)
              \o ReplaceChar(SubSeq(str, h + 1, Len(str)), a, b)

IsWordChar(c) ==
    IsLowerLetter(c) \/ c \in DOMAIN LowerMap \/ IsDigit(c) \/ c = "_"

RECURSIVE NonWordToUnderscore(_)
\* re.sub(r'[^\w]', '_', str)
NonWordToUnderscore(str) ==
    IF Len(str) <= 1 THEN (IF str = "" \/ IsWordChar(str) THEN str ELSE "_")
    ELSE LET h == Len(str) \div 2
         IN NonWordToUnderscore(SubSeq(str, 1, h))
              \o NonWordToUnderscore(SubSeq(str, h + 1, Len(str)))

RECURSIVE CollapseUnderscoreRange(_, _, _)
CollapseUnderscoreRange(str, lo, hi) ==
    IF lo > hi THEN ""
    ELSE IF lo = hi
    THEN (IF CharAt(str, lo) = "_" /\ lo > 1 /\ CharAt(str, lo - 1) = "_"
          THEN "" ELSE CharAt(str, lo))
    ELSE LET h == (lo + hi) \div 2
         IN CollapseUnderscoreRange(str, lo, h)
              \o CollapseUnderscoreRange(str, h + 1, hi)

\* re.sub(r'_+', '_', str)
CollapseUnderscores(str) == CollapseUnderscoreRange(str, 1, Len(str))

\* str.strip('_')
StripUnderscores(str) ==
    LET solid == {i \in 1..Len(str) : CharAt(str, i) # "_"}
        first == CHOOSE i \in solid : \A j \in solid : i <= j
        last == CHOOSE i \in solid : \A j \in solid : j <= i
    IN IF solid = {} THEN "" ELSE SubSeq(str, first, last)

\* ------------------------------------------------- destination database
\* A destination table: whether it exists and the rows it holds
\* (row id 0 is a row that was there before the run).
AbsentTable == [exists |-> FALSE, rows |-> <<>>]
OldTable == [exists |-> TRUE, rows |-> <<0>>]
EmptyTable == [exists |-> TRUE, rows |-> <<>>]

\* self.name of the process
ProcessName == "Mi Proceso"

\* selected_sheets of an Excel process
SelectedSheets == [u \in Units |-> "Hoja" \o IntToStr(u)]

\* the keys of tablas_data of a SQL process ("schema.table", or the bare
\* name of a table selected without schema): pairwise distinct keys
SelectedTables ==
    { [u \in Units |-> "dbo.t" \o IntToStr(u)],
      [u \in Units |-> IF u = 1 THEN "dbo.ventas"
                        ELSE IF u = 2 THEN "dbo_ventas"
                        ELSE "dbo.t" \o IntToStr(u)] }

\* nombre_tabla_destino of the sheet with loop index hoja
ExcelDestName(hoja) ==
    StripUnderscores(CollapseUnderscores(NonWordToUnderscore(
        ReplaceChar(ReplaceChar(ProcessName \o "_hoja" \o IntToStr(hoja),
                                " ", "_"), "-", "_"))))

\* nombre_tabla_destino of the source table with key nombre_tabla
SqlDestName(nombre_tabla) ==
    ReplaceChar(ProcessName, " ", "_") \o "_" \o ReplaceChar(nombre_tabla, ".", "_")

\* the destination names of the sheets, and of the tables of each selection
ExcelDestNames == [u \in Units |-> ExcelDestName(u)]
SqlDestNames == [sel \in SelectedTables |-> [u \in Units |-> SqlDestName(sel[u])]]

\* nombre_tabla_destino of unit u of the run
DestName(u) ==
    IF source_type = "excel" THEN ExcelDestNames[u] ELSE SqlDestNames[selected][u]

\* the destination table a unit works on: tables are identified by the
\* first unit of the run that has their name
DestTable(u) ==
    CHOOSE t \in Units :
        /\ DestName(t) = DestName(u)
        /\ \A v \in Units : DestName(v) = DestName(u) => t <= v

\* "IF OBJECT_ID(t,'U') IS NOT NULL DROP TABLE [t]"
DropIfExists(t) == IF t.exists THEN AbsentTable ELSE t

\* cursor.execute(create_table_sql)
CreateTable(t) == EmptyTable

\* conn.commit(): the working copy becomes the committed state
Commit(work, committed) == work

\* conn.close() without commit discards the working copy
Rollback(work, committed) == committed

\* ------------------------------------------------------------ unit input
\* column_mappings of the unit: absent, dict-valued and valid, dict-valued
\* with a validation error, or legacy string-valued
Cfgs == {"none", "dict_valid", "dict_invalid", "legacy"}

UnitInputs(u) ==
    { x \in [id : {u}, cfg : Cfgs, n : 0..MaxRows, bad : SUBSET (1..MaxRows)] :
        x.bad \subseteq 1..x.n }

NoUnit == [id |-> 0, cfg |-> "none", n |-> 0, bad |-> {}]

\* rows of the unit the destination rejects
BadRows(un) == un.bad \cap (1..un.n)

\* "if self.column_mappings and source_table_name in self.column_mappings"
HasMappings(c) == c # "none"

\* validate_column_mappings(df, column_mappings): (is_valid, errors);
\* config.get on a string-valued (legacy) mapping raises AttributeError
ValidateColumnMappings(c) ==
    IF c = "legacy" THEN "raise"
    ELSE IF c = "dict_invalid" THEN "errors" ELSE "ok"

\* df_datos.columns of a unit
UnitColumns == <<"Nombre Cliente", "fecha-alta", "id">>

\* self.column_mappings[source_table_name].get(col): a dict-valued entry
\* (with or without 'renamed_to'), a legacy string-valued entry, or None
NoEntry == [kind |-> "none", has_renamed |-> FALSE, renamed_to |-> ""]
DictEntry(name) == [kind |-> "dict", has_renamed |-> TRUE, renamed_to |-> name]
DictEntryPlain == [kind |-> "dict", has_renamed |-> FALSE, renamed_to |-> ""]
LegacyEntry(name) == [kind |-> "str", has_renamed |-> FALSE, renamed_to |-> name]

ColumnConfig(c, col) ==
    CASE c = "none" -> NoEntry
      [] c = "legacy" ->
           (IF col = "Nombre Cliente" THEN LegacyEntry("cliente") ELSE NoEntry)
      [] c = "dict_valid" ->
           (IF col = "Nombre Cliente" THEN DictEntry("cliente")
            ELSE IF col = "id" THEN DictEntryPlain ELSE NoEntry)
      [] OTHER ->
           (IF col = "Nombre Cliente" THEN DictEntry("nombre cliente")
            ELSE DictEntryPlain)

RECURSIVE CleanColumn(_)
\* name.replace(' ', '_').replace('-', '_'), then the characters that are
\* alphanumeric or '_'
CleanColumn(str) ==
    IF Len(str) <= 1
    THEN (IF str \in {" ", "-"} THEN "_"
          ELSE IF IsLowerLetter(str) \/ str \in DOMAIN LowerMap \/ IsDigit(str)
                   \/ str = "_"
               THEN str ELSE "")
    ELSE LET h == Len(str) \div 2
         IN CleanColumn(SubSeq(str, 1, h)) \o CleanColumn(SubSeq(str, h + 1, Len(str)))

\* _generate_create_table_sql: the name each column gets in CREATE TABLE
CreateColumnName(c, col) ==
    LET column_config == ColumnConfig(c, col)
    IN CleanColumn(IF column_config.kind = "str" THEN column_config.renamed_to
                   ELSE IF column_config.kind = "dict" /\ column_config.has_renamed
                        THEN column_config.renamed_to
                        ELSE col)

\* clean_columns_list of the INSERT: only a dict-valued entry renames
InsertColumnName(c, col) ==
    LET column_config == ColumnConfig(c, col)
    IN CleanColumn(IF column_config.kind = "dict" /\ column_config.has_renamed
                   THEN column_config.renamed_to
                   ELSE col)

CreateColumns(c) == [i \in DOMAIN UnitColumns |-> CreateColumnName(c, UnitColumns[i])]

InsertColumns(c) == [i \in DOMAIN UnitColumns |-> InsertColumnName(c, UnitColumns[i])]

\* no statement of the unit has been built
NoColumns == [create |-> <<>>, insert |-> <<>>]

\* pyodbc leaves cursor.rowcount at -1 after executemany
ExecutemanyRowcount == -1

RECURSIVE AppendRows(_, _, _, _)
\* rows lo..hi that the destination accepts, appended to rs in order
AppendRows(rs, lo, hi, bad) ==
    IF lo > hi THEN rs
    ELSE AppendRows(IF lo \in bad THEN rs ELSE Append(rs, lo), lo + 1, hi, bad)

\* index of the first rejected row (n + 1 when none)
FirstBad(n, bad) ==
    IF bad \cap (1..n) = {} THEN n + 1
    ELSE CHOOSE i \in bad \cap (1..n) : \A j \in bad \cap (1..n) : i <= j

\* cursor.executemany: rows before the first rejected one stay in the
\* open transaction when it raises
ExecutemanyRows(rs, n, bad) == AppendRows(rs, 1, FirstBad(n, bad) - 1, {})

\* the row-by-row fallback: every accepted row is inserted, rejected rows
\* are printed and skipped
RowByRowRows(rs, n, bad) == AppendRows(rs, 1, n, bad)

\* registros_insertados after the insert step
InsertCount(n, bad) ==
    IF bad \cap (1..n) = {}
    THEN (IF ExecutemanyRowcount # -1 THEN ExecutemanyRowcount ELSE n)
    ELSE Cardinality((1..n) \ bad)

\* a handler that returns without closing
HandlerCloseSkipped(c) == c

\* the except block closes what it finds in locals()
HandlerClose(c) == IF c = "open" THEN "closed" ELSE c

\* a summary step without its try/except
SummaryLogStepUnguarded(fails) == IF fails THEN "raise" ELSE "return"

\* the try/except around the ResultadosProcesados summary
SummaryLogStep(fails) == "return"

NoResult == [returned |-> FALSE, ok |-> FALSE, records_inserted |-> 0, error |-> FALSE]

\* ------------------------------------------ _save_dataframe_to_destination
\* entry of the call: fresh locals
SaveEnter(un) ==
    /\ unit' = un
    /\ spc' = "connect"
    /\ conn' = "none"
    /\ cursor' = "none"
    /\ validated' = "none"
    /\ ddl' = {}
    /\ dropped_existing' = FALSE
    /\ registros_insertados' = 0
    /\ faults' = {}
    /\ save_result' = NoResult
    /\ sql_columns' = NoColumns
    /\ table_before' = tables[DestTable(un.id)]
    /\ UNCHANGED <<tables, tx>>

\* pyodbc.connect(...); conn.cursor()
SaveConnect ==
    /\ spc = "connect"
    /\ \E o \in {"ok", "connect_fails", "cursor_fails"} :
         /\ conn' = IF o = "connect_fails" THEN "none" ELSE "open"
         /\ cursor' = IF o = "ok" THEN "open" ELSE "none"
         /\ faults' = IF o = "ok" THEN faults ELSE faults \cup {"connect"}
         /\ spc' = IF o = "ok" THEN "ddl" ELSE "handler"
    /\ tx' = tables
    /\ UNCHANGED <<unit, sql_columns, table_before, tables, validated, ddl, dropped_existing,
                   registros_insertados, save_result>>
    /\ UNCHANGED <<procVars, normVars>>

\* CREATE TABLE is generated; DROP TABLE if it exists, CREATE TABLE,
\* conn.commit(); for a frame with rows the INSERT statement is built
SaveDDL ==
    /\ spc = "ddl"
    /\ LET t == DestTable(unit.id)
           existed == tx[t].exists
           afterDrop == [tx EXCEPT ![t] = DropIfExists(tx[t])]
           afterCreate == [afterDrop EXCEPT ![t] = CreateTable(afterDrop[t])]
       IN \E o \in {"ok", "drop_fails", "create_fails", "commit_fails"} :
            /\ tx' = CASE o = "drop_fails" -> tx
                       [] o = "create_fails" -> afterDrop
                       [] OTHER -> afterCreate
            /\ tables' = IF o = "ok" THEN Commit(afterCreate, tables) ELSE tables
            /\ ddl' = CASE o = "drop_fails" -> ddl
                        [] o = "create_fails" ->
                             ddl \cup (IF existed THEN {"DROP"} ELSE {})
                        [] OTHER ->
                             ddl \cup (IF existed THEN {"DROP"} ELSE {}) \cup {"CREATE"}
            /\ dropped_existing' = (o # "drop_fails" /\ existed)
            /\ faults' = IF o = "ok" THEN faults ELSE faults \cup {"ddl"}
            /\ spc' = IF o # "ok" THEN "handler"
                      ELSE IF unit.n = 0 THEN "commit" ELSE "validate"
            /\ sql_columns' =
                  [create |-> CreateColumns(unit.cfg),
                   insert |-> IF o = "ok" /\ unit.n > 0
                              THEN InsertColumns(unit.cfg) ELSE <<>>]
    /\ UNCHANGED <<unit, table_before, conn, cursor, validated,
                   registros_insertados, save_result>>
    /\ UNCHANGED <<procVars, normVars>>

\* "if column_mappings: is_valid, validation_errors = validate_column_mappings(...)"
SaveValidate ==
    /\ spc = "validate"
    /\ LET r == IF HasMappings(unit.cfg)
                THEN ValidateColumnMappings(unit.cfg) ELSE "skip"
       IN /\ validated' = IF r \in {"ok", "errors"} THEN r ELSE validated
          /\ faults' = IF r = "raise" THEN faults \cup {"validate"} ELSE faults
          /\ spc' = IF r = "raise" THEN "handler" ELSE "normalize"
    /\ UNCHANGED <<unit, sql_columns, table_before, conn, cursor, tables, tx, ddl, dropped_existing,
                   registros_insertados, save_result>>
    /\ UNCHANGED <<procVars, normVars>>

\* normalization (by mappings: per-column errors become warnings; basic:
\* normalize_df_for_sql may raise), then apply_default_values_from_mappings
\* (its failure is printed and the normalized frame is used)
SaveNormalize ==
    /\ spc = "normalize"
    /\ \E o \in {"ok", "normalize_fails", "defaults_fail"} :
         /\ o = "normalize_fails" => ~HasMappings(unit.cfg)
         /\ o = "defaults_fail" => HasMappings(unit.cfg)
         /\ faults' = CASE o = "normalize_fails" -> faults \cup {"normalize"}
                        [] o = "defaults_fail" -> faults \cup {"defaults"}
                        [] OTHER -> faults
         /\ spc' = IF o = "normalize_fails" THEN "handler" ELSE "insert"
    /\ UNCHANGED <<unit, sql_columns, table_before, conn, cursor, tables, tx, validated, ddl,
                   dropped_existing, registros_insertados, save_result>>
    /\ UNCHANGED <<procVars, normVars>>

\* cursor.executemany, and on its failure the row-by-row fallback
SaveInsert ==
    /\ spc = "insert"
    /\ LET t == DestTable(unit.id)
           bad == BadRows(unit)
           bulk == ExecutemanyRows(tx[t].rows, unit.n, bad)
       IN /\ tx' = [tx EXCEPT ![t].rows =
                       IF bad = {} THEN bulk ELSE RowByRowRows(bulk, unit.n, bad)]
          /\ registros_insertados' = InsertCount(unit.n, bad)
          /\ faults' = IF bad = {} THEN faults ELSE faults \cup {"insert"}
    /\ spc' = "commit"
    /\ UNCHANGED <<unit, sql_columns, table_before, conn, cursor, tables, validated, ddl,
                   dropped_existing, save_result>>
    /\ UNCHANGED <<procVars, normVars>>

\* "conn.commit()" after the insert block
SaveCommit ==
    /\ spc = "commit"
    /\ \E ok \in BOOLEAN :
         /\ tables' = IF ok THEN Commit(tx, tables) ELSE tables
         /\ faults' = IF ok THEN faults ELSE faults \cup {"commit"}
         /\ spc' = IF ok THEN "close" ELSE "handler"
    /\ UNCHANGED <<unit, sql_columns, table_before, conn, cursor, tx, validated, ddl, dropped_existing,
                   registros_insertados, save_result>>
    /\ UNCHANGED <<procVars, normVars>>

\* "cursor.close(); conn.close()" of the success path
SaveClose ==
    /\ spc = "close"
    /\ cursor' = "closed"
    /\ conn' = "closed"
    /\ tx' = Rollback(tx, tables)
    /\ spc' = "summary"
    /\ UNCHANGED <<unit, sql_columns, table_before, tables, validated, ddl, dropped_existing,
                   registros_insertados, faults, save_result>>
    /\ UNCHANGED <<procVars, normVars>>

\* summary record in ResultadosProcesados (failure only printed), return True
SaveSummary ==
    /\ spc = "summary"
    /\ \E fails \in BOOLEAN :
         /\ faults' = IF fails THEN faults \cup {"summary"} ELSE faults
         /\ IF fails /\ SummaryLogStep(fails) = "raise"
            THEN /\ spc' = "raised"
                 /\ pc' = "raised"
                 /\ UNCHANGED save_result
            ELSE /\ spc' = "idle"
                 /\ pc' = "after_save"
                 /\ save_result' = [returned |-> TRUE, ok |-> TRUE,
                                    records_inserted |-> registros_insertados,
                                    error |-> FALSE]
    /\ UNCHANGED <<unit, sql_columns, table_before, conn, cursor, tables, tx, validated, ddl,
                   dropped_existing, registros_insertados>>
    /\ UNCHANGED <<procRest, normVars>>

\* "except Exception as e": close what is open, log the error, return False
SaveHandler ==
    /\ spc = "handler"
    /\ cursor' = HandlerClose(cursor)
    /\ conn' = HandlerClose(conn)
    /\ tx' = Rollback(tx, tables)
    /\ save_result' = [returned |-> TRUE, ok |-> FALSE,
                       records_inserted |-> 0, error |-> TRUE]
    /\ spc' = "idle"
    /\ pc' = "after_save"
    /\ UNCHANGED <<unit, sql_columns, table_before, tables, validated, ddl, dropped_existing,
                   registros_insertados, faults>>
    /\ UNCHANGED <<procRest, normVars>>

\* the caller has taken the returned pair: the locals of the call are gone
SaveLeave ==
    /\ unit' = NoUnit
    /\ spc' = "idle"
    /\ conn' = "none"
    /\ cursor' = "none"
    /\ validated' = "none"
    /\ ddl' = {}
    /\ dropped_existing' = FALSE
    /\ registros_insertados' = 0
    /\ faults' = {}
    /\ save_result' = NoResult
    /\ sql_columns' = NoColumns
    /\ table_before' = AbsentTable
    /\ UNCHANGED <<tables, tx>>

SaveNext ==
    \/ SaveConnect \/ SaveDDL \/ SaveValidate \/ SaveNormalize
    \/ SaveInsert \/ SaveCommit \/ SaveClose \/ SaveSummary \/ SaveHandler


\* ------------------------------------------------------------ ProcessTracker
\* tracker_final[u]: none -> started (iniciar) -> exito / error (finalizar_*)
TrackerStates == {"none", "started", "exito", "error"}

\* finalizar_exito / finalizar_error save the record of the tracker they are
\* called on; when the save fails the call raises and nothing is recorded
Finalize(tf, k, how, ok) == IF ok /\ k # 0 THEN [tf EXCEPT ![k] = how] ELSE tf

\* ---------------------------------------------------------------- outcomes
NoOutcome == [returned |-> FALSE, success |-> FALSE, ok_count |-> 0,
              fail_count |-> 0, total_units |-> 0, total_rows |-> 0,
              ptype |-> "none"]

\* success only when no unit failed
SuccessGeneralStrict(exitosas, fallidas) == exitosas > 0 /\ fallidas = 0

\* "success_general = hojas_exitosas > 0"
SuccessGeneral(exitosas, fallidas) == exitosas > 0

RECURSIVE SumN(_)
SumN(s) == IF s = <<>> THEN 0 ELSE Head(s).n + SumN(Tail(s))

RECURSIVE SeqOfSet(_, _)
\* the tables of set S in selection order, each with its extracted row count
SeqOfSet(S, rows) ==
    IF S = {} THEN <<>>
    ELSE LET m == CHOOSE i \in S : \A j \in S : i <= j
         IN <<[tabla |-> m, n |-> rows[m]]>> \o SeqOfSet(S \ {m}, rows)

\* ------------------------------------ _process_excel_sheets_individually
\* _get_excel_file, selected_sheets, MigrationLog.log, main_tracker update
ExcelStart ==
    /\ pc = "start"
    /\ source_type = "excel"
    /\ \E ok \in BOOLEAN : pc' = IF ok THEN "loop" ELSE "outer_except"
    /\ UNCHANGED <<procRest, saveVars, normVars>>

\* one iteration up to the call of the save: tracker, iniciar, parse, clean
SheetBegin ==
    /\ pc = "loop"
    /\ source_type = "excel"
    /\ hoja_index < NumUnits
    /\ LET u == hoja_index + 1
       IN /\ hoja_index' = u
          /\ \E o \in {"ok", "tracker_fails", "iniciar_fails", "extract_fails"} :
               /\ tracker_hoja' = IF o = "tracker_fails" THEN tracker_hoja ELSE u
               /\ proceso_id_hoja' =
                     IF o \in {"tracker_fails", "iniciar_fails"}
                     THEN proceso_id_hoja ELSE u
               /\ tracker_final' =
                     IF o \in {"ok", "extract_fails"}
                     THEN [tracker_final EXCEPT ![u] = "started"]
                     ELSE tracker_final
               /\ IF o = "ok"
                  THEN /\ pc' = "save"
                       /\ \E un \in UnitInputs(u) : SaveEnter(un)
                  ELSE /\ pc' = "unit_except"
                       /\ UNCHANGED saveVars
    /\ UNCHANGED <<source_type, hojas_procesadas, hojas_con_error,
                   total_registros_procesados, selected, tablas_data,
                   tablas_exitosas, tablas_con_error, total_registros, result>>
    /\ UNCHANGED normVars

\* "if success_hoja: ... else: ..." after the save returned
SheetAfterSave ==
    /\ pc = "after_save"
    /\ source_type = "excel"
    /\ \E ok \in BOOLEAN :
         IF save_result.ok
         THEN /\ tracker_final' = Finalize(tracker_final, tracker_hoja, "exito", ok)
              /\ IF ok
                 THEN /\ hojas_procesadas' = Append(hojas_procesadas,
                            [sheet |-> hoja_index, registros |-> unit.n,
                             proceso_id |-> proceso_id_hoja])
                      /\ total_registros_procesados' =
                            total_registros_procesados + unit.n
                      /\ pc' = "loop"
                 ELSE /\ UNCHANGED <<hojas_procesadas, total_registros_procesados>>
                      /\ pc' = "unit_except"
              /\ UNCHANGED hojas_con_error
         ELSE /\ tracker_final' = Finalize(tracker_final, tracker_hoja, "error", ok)
              /\ IF ok
                 THEN /\ hojas_con_error' = Append(hojas_con_error,
                            [sheet |-> hoja_index, proceso_id |-> proceso_id_hoja])
                      /\ pc' = "loop"
                 ELSE /\ UNCHANGED hojas_con_error
                      /\ pc' = "unit_except"
              /\ UNCHANGED <<hojas_procesadas, total_registros_procesados>>
    /\ UNCHANGED <<source_type, hoja_index, tracker_hoja, proceso_id_hoja,
                   selected, tablas_data, tablas_exitosas, tablas_con_error,
                   total_registros, result>>
    /\ SaveLeave
    /\ UNCHANGED normVars

\* "except Exception as e_hoja": finalize the tracker found in locals(),
\* record the sheet as failed; a raise of finalizar_error leaves the loop
SheetExcept ==
    /\ pc = "unit_except"
    /\ source_type = "excel"
    /\ \E ok \in BOOLEAN :
         /\ tracker_hoja = 0 => ok
         /\ tracker_final' = Finalize(tracker_final, tracker_hoja, "error", ok)
         /\ IF ok
            THEN /\ hojas_con_error' = Append(hojas_con_error,
                       [sheet |-> hoja_index, proceso_id |-> proceso_id_hoja])
                 /\ pc' = "loop"
            ELSE /\ UNCHANGED hojas_con_error
                 /\ pc' = "outer_except"
    /\ UNCHANGED <<source_type, hoja_index, hojas_procesadas,
                   total_registros_procesados, tracker_hoja, proceso_id_hoja,
                   selected, tablas_data, tablas_exitosas, tablas_con_error,
                   total_registros, result>>
    /\ UNCHANGED <<saveVars, normVars>>

\* consolidation after the loop; the tracker / log calls that follow may raise
ExcelConsolidate ==
    /\ pc = "loop"
    /\ source_type = "excel"
    /\ hoja_index = NumUnits
    /\ \E ok \in BOOLEAN :
         IF ok
         THEN /\ result' = [returned |-> TRUE,
                            success |-> SuccessGeneral(Len(hojas_procesadas),
                                                       Len(hojas_con_error)),
                            ok_count |-> Len(hojas_procesadas),
                            fail_count |-> Len(hojas_con_error),
                            total_units |-> NumUnits,
                            total_rows |-> total_registros_procesados,
                            ptype |-> "excel_multi_sheet"]
              /\ pc' = "done"
         ELSE /\ UNCHANGED result
              /\ pc' = "outer_except"
    /\ UNCHANGED <<source_type, hoja_index, hojas_procesadas, hojas_con_error,
                   total_registros_procesados, tracker_hoja, proceso_id_hoja,
                   tracker_final, selected, tablas_data, tablas_exitosas,
                   tablas_con_error, total_registros>>
    /\ UNCHANGED <<saveVars, normVars>>

\* outer "except Exception as e": main_tracker update (may raise), return False
ExcelOuterExcept ==
    /\ pc = "outer_except"
    /\ source_type = "excel"
    /\ \E ok \in BOOLEAN :
         IF ok
         THEN /\ result' = [returned |-> TRUE, success |-> FALSE,
                            ok_count |-> 0, fail_count |-> NumUnits,
                            total_units |-> NumUnits, total_rows |-> 0,
                            ptype |-> "excel_multi_sheet_error"]
              /\ pc' = "done"
         ELSE /\ UNCHANGED result
              /\ pc' = "raised"
    /\ UNCHANGED <<source_type, hoja_index, hojas_procesadas, hojas_con_error,
                   total_registros_procesados, tracker_hoja, proceso_id_hoja,
                   tracker_final, selected, tablas_data, tablas_exitosas,
                   tablas_con_error, total_registros>>
    /\ UNCHANGED <<saveVars, normVars>>

ExcelNext ==
    \/ ExcelStart \/ SheetBegin \/ SheetAfterSave \/ SheetExcept
    \/ ExcelConsolidate \/ ExcelOuterExcept


\* -------------------------------------- _process_sql_tables_individually
\* tablas_con_error is first the list of extraction errors, then (from the
\* table loop on) an integer counter
ErrList(k) == [kind |-> "list", n |-> k]
ErrInt(k) == [kind |-> "int", n |-> k]

SqlErrorOutcome == [returned |-> TRUE, success |-> FALSE, ok_count |-> 0,
                    fail_count |-> 0, total_units |-> NumUnits,
                    total_rows |-> 0, ptype |-> "sql_processing"]

\* extraction, grouping by table and the early returns before the loop
SqlStart ==
    /\ pc = "start"
    /\ source_type = "sql"
    /\ \E errs \in SUBSET Units, rows \in [Units -> 0..MaxRows],
          o \in {"ok", "extract_error", "raise"} :
         CASE o = "extract_error" ->
                /\ result' = SqlErrorOutcome
                /\ pc' = "done"
                /\ UNCHANGED <<tablas_data, tablas_exitosas, tablas_con_error,
                               total_registros>>
           [] o = "raise" ->
                /\ tablas_con_error' = ErrList(Cardinality(errs))
                /\ pc' = "outer_except"
                /\ UNCHANGED <<tablas_data, tablas_exitosas, total_registros, result>>
           [] OTHER ->
                IF errs = Units
                THEN /\ tablas_con_error' = ErrList(Cardinality(errs))
                     /\ result' = SqlErrorOutcome
                     /\ pc' = "done"
                     /\ UNCHANGED <<tablas_data, tablas_exitosas, total_registros>>
                ELSE /\ tablas_data' = SeqOfSet(Units \ errs, rows)
                     /\ total_registros' = SumN(SeqOfSet(Units \ errs, rows))
                     /\ tablas_exitosas' = 0
                     /\ tablas_con_error' = ErrInt(0)
                     /\ pc' = "loop"
                     /\ UNCHANGED result
    /\ UNCHANGED <<source_type, hoja_index, hojas_procesadas, hojas_con_error,
                   total_registros_procesados, tracker_hoja, proceso_id_hoja,
                   tracker_final, selected>>
    /\ UNCHANGED <<saveVars, normVars>>

\* one iteration up to the call of the save (no try around the body)
TableBegin ==
    /\ pc = "loop"
    /\ source_type = "sql"
    /\ hoja_index < Len(tablas_data)
    /\ hoja_index' = hoja_index + 1
    /\ LET td == tablas_data[hoja_index + 1]
       IN \E ok \in BOOLEAN :
            IF ok
            THEN /\ pc' = "save"
                 /\ \E un \in {x \in UnitInputs(td.tabla) : x.n = td.n} : SaveEnter(un)
            ELSE /\ pc' = "outer_except"
                 /\ UNCHANGED saveVars
    /\ UNCHANGED <<source_type, hojas_procesadas, hojas_con_error,
                   total_registros_procesados, tracker_hoja, proceso_id_hoja,
                   tracker_final, selected, tablas_data, tablas_exitosas,
                   tablas_con_error, total_registros, result>>
    /\ UNCHANGED normVars

\* "if exito_guardado: tablas_exitosas += 1 else: tablas_con_error += 1"
TableAfterSave ==
    /\ pc = "after_save"
    /\ source_type = "sql"
    /\ IF save_result.ok
       THEN /\ tablas_exitosas' = tablas_exitosas + 1
            /\ UNCHANGED tablas_con_error
       ELSE /\ tablas_con_error' = ErrInt(tablas_con_error.n + 1)
            /\ UNCHANGED tablas_exitosas
    /\ pc' = "loop"
    /\ UNCHANGED <<source_type, hoja_index, hojas_procesadas, hojas_con_error,
                   total_registros_procesados, tracker_hoja, proceso_id_hoja,
                   tracker_final, selected, tablas_data, total_registros, result>>
    /\ SaveLeave
    /\ UNCHANGED normVars

\* "success = tablas_exitosas > 0", result_info, tracker.finalizar (may raise)
SqlConsolidate ==
    /\ pc = "loop"
    /\ source_type = "sql"
    /\ hoja_index = Len(tablas_data)
    /\ \E ok \in BOOLEAN :
         IF ok
         THEN /\ result' = [returned |-> TRUE,
                            success |-> SuccessGeneral(tablas_exitosas,
                                                       tablas_con_error.n),
                            ok_count |-> tablas_exitosas,
                            fail_count |-> tablas_con_error.n,
                            total_units |-> Len(selected),
                            total_rows |-> total_registros,
                            ptype |-> "sql_multi_table"]
              /\ pc' = "done"
         ELSE /\ UNCHANGED result
              /\ pc' = "outer_except"
    /\ UNCHANGED <<source_type, hoja_index, hojas_procesadas, hojas_con_error,
                   total_registros_procesados, tracker_hoja, proceso_id_hoja,
                   tracker_final, selected, tablas_data, tablas_exitosas,
                   tablas_con_error, total_registros>>
    /\ UNCHANGED <<saveVars, normVars>>

\* the handler builds its message from tablas_con_error[:3] when that name
\* is truthy: a slice of the list works, a slice of the int counter raises
HandlerDetails(tce) == IF tce.n > 0 /\ tce.kind = "int" THEN "raise" ELSE "ok"

\* outer "except Exception as e" of the table loop
SqlOuterExcept ==
    /\ pc = "outer_except"
    /\ source_type = "sql"
    /\ \E ok \in BOOLEAN :
         IF HandlerDetails(tablas_con_error) = "ok" /\ ok
         THEN /\ result' = SqlErrorOutcome
              /\ pc' = "done"
         ELSE /\ UNCHANGED result
              /\ pc' = "raised"
    /\ UNCHANGED <<source_type, hoja_index, hojas_procesadas, hojas_con_error,
                   total_registros_procesados, tracker_hoja, proceso_id_hoja,
                   tracker_final, selected, tablas_data, tablas_exitosas,
                   tablas_con_error, total_registros>>
    /\ UNCHANGED <<saveVars, normVars>>

SqlNext ==
    \/ SqlStart \/ TableBegin \/ TableAfterSave \/ SqlConsolidate \/ SqlOuterExcept

\* ------------------------------------- validators.normalize_value_by_type
\* Python values: t is the type tag, v the number (floats in tenths), s the text
PyNone == [t |-> "none", v |-> 0, s |-> ""]
PyStr(x) == [t |-> "str", v |-> 0, s |-> x]
PyInt(i) == [t |-> "int", v |-> i, s |-> ""]
PyFloat(tenths) == [t |-> "float", v |-> tenths, s |-> ""]
PyBool(b) == [t |-> "bool", v |-> IF b THEN 1 ELSE 0, s |-> ""]
PyNaN == [t |-> "float_nan", v |-> 0, s |-> ""]
PyInf == [t |-> "float_inf", v |-> 0, s |-> ""]
PyTimestamp(x) == [t |-> "timestamp", v |-> 0, s |-> x]
PyNaT == [t |-> "nat", v |-> 0, s |-> ""]
TimestampNow == PyTimestamp("now")

\* cell texts of the model
Texts == {"", "   ", "25", " 30 ", "30", "2.7", "abc", "inf", "nan", "NaT",
          "true", "no", "t", "2024-01-15", "GETDATE()"}

RawValues ==
    {PyNone, PyNaN, PyInf, PyInt(5), PyInt(0), PyFloat(27), PyBool(TRUE),
     PyTimestamp("2024-01-15")} \cup {PyStr(x) : x \in Texts \ {"30"}}

SqlTypes == {"INT", "BIGINT", "FLOAT", "DATETIME", "BIT", "NVARCHAR(255)",
             "VARCHAR(3)", "CHAR(2)", "TEXT"}

Defaults == {PyNone, PyStr("0"), PyStr("GETDATE()"), PyStr("N/A")}

\* str.strip()
Strip(x) == CASE x = "   " -> "" [] x = " 30 " -> "30" [] OTHER -> x

\* str.lower() / str.upper() on the texts of the model
Lower(x) == CASE x = "NaT" -> "nat" [] x = "GETDATE()" -> "getdate()" [] OTHER -> x
Upper(x) == CASE x = "abc" -> "ABC" [] x = "inf" -> "INF" [] x = "nan" -> "NAN"
              [] x = "NaT" -> "NAT" [] x = "true" -> "TRUE" [] x = "no" -> "NO"
              [] x = "t" -> "T" [] OTHER -> x

\* pd.isna(value)
PdIsNa(x) == x.t \in {"none", "float_nan", "nat"}

\* "any(t in upper_type for t in [...])" on the types of the model
IsIntType(ty) == ty \in {"INT", "BIGINT", "SMALLINT", "TINYINT"}
IsFloatType(ty) == ty \in {"FLOAT", "DECIMAL", "NUMERIC", "MONEY", "REAL"}
IsDateType(ty) == ty \in {"DATE", "DATETIME", "DATETIME2", "TIME", "TIMESTAMP"}
IsBitType(ty) == ty = "BIT"

\* max length declared in the type, 0 when there is none
DeclaredLength(ty) ==
    CASE ty = "NVARCHAR(255)" -> 255 [] ty = "VARCHAR(3)" -> 3
      [] ty = "CHAR(2)" -> 2 [] OTHER -> 0

SqlDateFunctions == {"GETDATE()", "NOW()", "CURRENT_TIMESTAMP"}

\* an outcome of a call or conversion: a value, or the exception raised
Ret(x) == [status |-> "returned", exc |-> "", val |-> x]
Raise(e) == [status |-> "raised", exc |-> e, val |-> PyNone]
NotRun == [status |-> "none", exc |-> "", val |-> PyNone]

\* Python float(x)
PyFloatOf(x) ==
    CASE x.t = "str" ->
           (CASE Strip(x.s) = "25" -> Ret(PyFloat(250))
              [] Strip(x.s) = "30" -> Ret(PyFloat(300))
              [] Strip(x.s) = "2.7" -> Ret(PyFloat(27))
              [] Strip(x.s) = "inf" -> Ret(PyInf)
              [] Strip(x.s) = "nan" -> Ret(PyNaN)
              [] OTHER -> Raise("ValueError"))
      [] x.t = "int" -> Ret(PyFloat(x.v * 10))
      [] x.t = "bool" -> Ret(PyFloat(x.v * 10))
      [] x.t \in {"float", "float_nan", "float_inf"} -> Ret(x)
      [] OTHER -> Raise("TypeError")

\* Python int(f) of a float: truncation; inf and nan raise
PyIntOfFloat(f) ==
    CASE f.t = "float_inf" -> Raise("OverflowError")
      [] f.t = "float_nan" -> Raise("ValueError")
      [] OTHER -> Ret(PyInt(IF f.v >= 0 THEN f.v \div 10 ELSE -((-f.v) \div 10)))

\* "int(float(value))"
PyIntOfValue(x) ==
    IF PyFloatOf(x).status = "raised" THEN PyFloatOf(x)
    ELSE PyIntOfFloat(PyFloatOf(x).val)

\* pd.to_datetime(text): the outcomes a text can have (a date text parses,
\* the NaT texts give NaT, free text raises ParserError, a ValueError; what
\* the parser makes of bare numbers depends on its version)
PdToDatetime(x) ==
    CASE x = "2024-01-15" -> {Ret(PyTimestamp("2024-01-15"))}
      [] x \in {"nan", "NaT"} -> {Ret(PyNaT)}
      [] x \in {"25", " 30 ", "30", "2.7"} ->
           {Ret(PyTimestamp("parsed")), Raise("ValueError")}
      [] OTHER -> {Raise("ValueError")}

\* the exceptions the conversion blocks catch: "except (ValueError, TypeError)"
CaughtByConversion(e) == e \in {"ValueError", "TypeError"}

\* "is_empty = pd.isna(value) or value == '' or (isinstance(value, str) and not value.strip())"
IsEmptyValue(x) == PdIsNa(x) \/ (x.t = "str" /\ (x.s = "" \/ Strip(x.s) = ""))

\* the fallback of the empty case (Caso 1)
EmptyFallback(ty, nullable, default_value) ==
    IF nullable THEN PyNone
    ELSE IF default_value # PyNone
         THEN (IF default_value.t = "str" /\ Upper(default_value.s) \in SqlDateFunctions
               THEN TimestampNow ELSE default_value)
         ELSE CASE IsIntType(ty) -> PyInt(0)
                [] IsFloatType(ty) -> PyFloat(0)
                [] IsDateType(ty) -> TimestampNow
                [] IsBitType(ty) -> PyInt(0)
                [] OTHER -> PyStr("")

\* "return default_value if default_value is not None else (None if nullable else zero)"
ConversionFallback(nullable, default_value, zero) ==
    IF default_value # PyNone THEN default_value
    ELSE IF nullable THEN PyNone ELSE zero

\* the fallback of the date branch
DateFallback(nullable, default_value) ==
    IF default_value # PyNone
    THEN (IF default_value.t = "str" /\ Upper(default_value.s) \in SqlDateFunctions
          THEN TimestampNow ELSE default_value)
    ELSE IF nullable THEN PyNone ELSE TimestampNow

BitTrueValues == {"true", "1", "s", "si", "sí", "yes", "y"}
BitFalseValues == {"false", "0", "n", "no"}

\* len(str_value)
TextLen(x) == Len(x)

\* a text branch that never cuts
TruncateKeepsAll(x, n) == x

\* "str_value = str_value[:max_length]"
Truncate(x, n) == IF Len(x) <= n THEN x ELSE SubSeq(x, 1, n)

\* str(value) of the values of the model
PyStrOf(x) ==
    CASE x.t = "str" -> x.s
      [] x.t = "int" -> (IF x.v = 5 THEN "5" ELSE "0")
      [] x.t = "float" -> "2.7"
      [] x.t = "float_inf" -> "inf"
      [] x.t = "bool" -> "True"
      [] OTHER -> "2024-01-15 00:00:00"
NormalizeText(x, ty) ==
    IF DeclaredLength(ty) > 0 /\ TextLen(PyStrOf(x)) > DeclaredLength(ty)
    THEN PyStr(Truncate(PyStrOf(x), DeclaredLength(ty)))
    ELSE PyStr(PyStrOf(x))

\* normalize_value_by_type(value, sql_type, nullable, default_value); dt is
\* the outcome of pd.to_datetime on the value when the date branch parses it
NormalizeValueByType(value, sql_type, nullable, default_value, dt) ==
    IF IsEmptyValue(value) THEN Ret(EmptyFallback(sql_type, nullable, default_value))
    ELSE CASE IsIntType(sql_type) ->
                (LET c == PyIntOfValue(value)
                 IN IF c.status = "returned" THEN c
                    ELSE IF CaughtByConversion(c.exc)
                         THEN Ret(ConversionFallback(nullable, default_value, PyInt(0)))
                         ELSE c)
           [] IsFloatType(sql_type) ->
                (LET c == PyFloatOf(value)
                 IN IF c.status = "returned" THEN c
                    ELSE IF CaughtByConversion(c.exc)
                         THEN Ret(ConversionFallback(nullable, default_value, PyFloat(0)))
                         ELSE c)
           [] IsDateType(sql_type) ->
                (IF value.t = "str" /\ Upper(value.s) \in SqlDateFunctions
                 THEN Ret(TimestampNow)
                 ELSE IF value.t = "str"
                      THEN (IF dt.status = "returned" THEN dt
                            ELSE IF CaughtByConversion(dt.exc)
                                 THEN Ret(DateFallback(nullable, default_value))
                                 ELSE dt)
                      ELSE Ret(value))
           [] IsBitType(sql_type) ->
                (CASE value.t = "bool" -> Ret(PyInt(value.v))
                   [] value.t \in {"int", "float"} ->
                        Ret(PyInt(IF value.v # 0 THEN 1 ELSE 0))
                   [] value.t = "float_inf" -> Ret(PyInt(1))
                   [] value.t = "str" /\ Strip(Lower(value.s)) \in BitTrueValues ->
                        Ret(PyInt(1))
                   [] value.t = "str" /\ Strip(Lower(value.s)) \in BitFalseValues ->
                        Ret(PyInt(0))
                   [] OTHER -> Ret(ConversionFallback(nullable, default_value, PyInt(0))))
           [] OTHER -> Ret(NormalizeText(value, sql_type))

\* the places that log "No se pudo convertir ..., usando default": the except
\* clauses of the INT, FLOAT and DATE branches and the end of the BIT branch
ConversionFailed(value, sql_type, dt) ==
    /\ ~IsEmptyValue(value)
    /\ CASE IsIntType(sql_type) ->
               PyIntOfValue(value).status = "raised"
                   /\ CaughtByConversion(PyIntOfValue(value).exc)
          [] IsFloatType(sql_type) ->
               PyFloatOf(value).status = "raised"
                   /\ CaughtByConversion(PyFloatOf(value).exc)
          [] IsDateType(sql_type) ->
               /\ value.t = "str"
               /\ Upper(value.s) \notin SqlDateFunctions
               /\ dt.status = "raised"
               /\ CaughtByConversion(dt.exc)
          [] IsBitType(sql_type) ->
               ~ \/ value.t \in {"bool", "int", "float", "float_inf"}
                 \/ value.t = "str" /\ Strip(Lower(value.s)) \in BitTrueValues
                 \/ value.t = "str" /\ Strip(Lower(value.s)) \in BitFalseValues
          [] OTHER -> FALSE

NvInputs == [value : RawValues, sql_type : SqlTypes, nullable : BOOLEAN,
             default_value : Defaults]

\* one call of normalize_value_by_type on the arguments nv_in
NormalizeCall ==
    /\ pc = "normalize"
    /\ nv_out.status = "none"
    /\ \E dt \in (IF nv_in.value.t = "str" THEN PdToDatetime(nv_in.value.s)
                  ELSE {NotRun}) :
         /\ nv_dt' = dt
         /\ nv_out' = NormalizeValueByType(nv_in.value, nv_in.sql_type,
                                           nv_in.nullable, nv_in.default_value, dt)
    /\ UNCHANGED <<nv_in, frameVars, nameVars, inferVars, procVars, saveVars, utilVars>>

\* ----------------------------- validators.normalize_dataframe_by_mappings
MaxCells == 2

\* cells of the column and the configurations of its mapping
FrameValues == {PyNone, PyStr(""), PyStr("25"), PyStr("abc"), PyStr("inf"),
                PyStr("2024-01-15"), PyStr("true"), PyInt(5)}

FrameTypes == {"INT", "FLOAT", "DATETIME", "BIT", "VARCHAR(3)"}

\* present: "original_col in df_result.columns"
FrameConfigs == [present : BOOLEAN, sql_type : FrameTypes, nullable : BOOLEAN,
                 default_value : {PyNone, PyStr("0")}]

FrameColumns == UNION {[1..n -> FrameValues] : n \in 0..MaxCells}

FrameIdleCfg == [present |-> FALSE, sql_type |-> "INT", nullable |-> TRUE,
                 default_value |-> PyNone]

\* "for original_col, config in column_mappings.items()": a mapped column
\* that the frame does not have is reported in warnings and skipped
FrameColumn ==
    /\ pc = "frame"
    /\ IF df_cfg.present
       THEN /\ pc' = "frame_apply"
            /\ UNCHANGED df_warnings
       ELSE /\ pc' = "frame_return"
            /\ df_warnings' = Append(df_warnings, "no existe en el DataFrame")
    /\ UNCHANGED <<df_cells, df_cfg, df_applied, df_result, df_log>>
    /\ UNCHANGED <<nv_in, nv_out, nv_dt, nameVars, inferVars, procRest, saveVars, utilVars>>

\* one cell of "df_result[col].apply(lambda x: normalize_value_by_type(...))";
\* an exception of the call ends the apply in the except clause, which
\* appends to warnings and leaves the column as it was
FrameApplyCell ==
    /\ pc = "frame_apply"
    /\ Len(df_applied) < Len(df_cells)
    /\ LET x == df_cells[Len(df_applied) + 1]
       IN \E dt \in (IF x.t = "str" THEN PdToDatetime(x.s) ELSE {NotRun}) :
            LET r == NormalizeValueByType(x, df_cfg.sql_type, df_cfg.nullable,
                                          df_cfg.default_value, dt)
            IN IF r.status = "returned"
               THEN /\ df_applied' = Append(df_applied, r.val)
                    /\ df_log' = IF ConversionFailed(x, df_cfg.sql_type, dt)
                                 THEN df_log + 1 ELSE df_log
                    /\ UNCHANGED <<pc, df_warnings>>
               ELSE /\ df_warnings' = Append(df_warnings, "Error al normalizar")
                    /\ pc' = "frame_return"
                    /\ UNCHANGED <<df_applied, df_log>>
    /\ UNCHANGED <<df_cells, df_cfg, df_result>>
    /\ UNCHANGED <<nv_in, nv_out, nv_dt, nameVars, inferVars, procRest, saveVars, utilVars>>

\* the apply went through every cell: the column is assigned
FrameAssign ==
    /\ pc = "frame_apply"
    /\ Len(df_applied) = Len(df_cells)
    /\ df_result' = df_applied
    /\ pc' = "frame_return"
    /\ UNCHANGED <<df_cells, df_cfg, df_applied, df_warnings, df_log>>
    /\ UNCHANGED <<nv_in, nv_out, nv_dt, nameVars, inferVars, procRest, saveVars, utilVars>>

\* "return df_result, warnings"
FrameReturn ==
    /\ pc = "frame_return"
    /\ pc' = "frame_done"
    /\ UNCHANGED <<frameVars, nv_in, nv_out, nv_dt, nameVars, inferVars, procRest, saveVars, utilVars>>

\* ------------------------------------------------ validators.normalize_name
MaxNames == 3

\* str.strip()
StrStrip(str) ==
    LET solid == {i \in 1..Len(str) : CharAt(str, i) # " "}
        first == CHOOSE i \in solid : \A j \in solid : i <= j
        last == CHOOSE i \in solid : \A j \in solid : j <= i
    IN IF solid = {} THEN "" ELSE SubSeq(str, first, last)

RECURSIVE ReplaceSpaces(_)
\* normalized.replace(' ', '_')
ReplaceSpaces(str) ==
    IF Len(str) <= 1 THEN (IF str = " " THEN "_" ELSE str)
    ELSE LET h == Len(str) \div 2
         IN ReplaceSpaces(SubSeq(str, 1, h)) \o ReplaceSpaces(SubSeq(str, h + 1, Len(str)))

RECURSIVE RemoveSpecial(_)
\* re.sub(r'[^a-z0-9_\-]', '', normalized)
RemoveSpecial(str) ==
    IF Len(str) <= 1
    THEN (IF IsLowerLetter(str) \/ IsDigit(str) \/ str \in {"_", "-"} THEN str ELSE "")
    ELSE LET h == Len(str) \div 2
         IN RemoveSpecial(SubSeq(str, 1, h)) \o RemoveSpecial(SubSeq(str, h + 1, Len(str)))

\* what character i of str becomes when runs of separators collapse
CollapsedChar(str, i) ==
    IF CharAt(str, i) \in {"_", "-"}
    THEN (IF i > 1 /\ CharAt(str, i - 1) \in {"_", "-"} THEN "" ELSE "_")
    ELSE CharAt(str, i)

RECURSIVE CollapseRange(_, _, _)
CollapseRange(str, lo, hi) ==
    IF lo > hi THEN ""
    ELSE IF lo = hi THEN CollapsedChar(str, lo)
    ELSE LET h == (lo + hi) \div 2
         IN CollapseRange(str, lo, h) \o CollapseRange(str, h + 1, hi)

\* re.sub(r'[_\-]+', '_', normalized)
CollapseSeparators(str) == CollapseRange(str, 1, Len(str))

\* "normalized = normalized[:128]"
NameLimit == 128

\* str[:n]
Prefix(str, n) == IF Len(str) <= n THEN str ELSE SubSeq(str, 1, n)

\* re.search(r'_(\d+)$', normalized): where the match starts, 0 without a match
SuffixStart(str) ==
    LET us == {i \in 1..Len(str) : CharAt(str, i) = "_"}
        last == CHOOSE i \in us : \A j \in us : j <= i
    IN IF us = {} THEN 0
       ELSE IF last < Len(str) /\ \A k \in (last + 1)..Len(str) : IsDigit(CharAt(str, k))
            THEN last ELSE 0

RECURSIVE StrToInt(_)
\* int(match.group(1))
StrToInt(str) ==
    IF str = "" THEN 0
    ELSE StrToInt(SubSeq(str, 1, Len(str) - 1)) * 10
             + (IndexOf(CharAt(str, Len(str)), DigitChars) - 1)

\* a search that takes the first suffix without looking at the list
NextFreeUnchecked(base_name, counter, existing_lower) == counter

RECURSIVE NextFree(_, _, _)
\* "while f'{base_name}_{counter}' in existing_lower: counter += 1"
NextFree(base_name, counter, existing_lower) ==
    IF (base_name \o "_" \o IntToStr(counter)) \in existing_lower
    THEN NextFree(base_name, counter + 1, existing_lower)
    ELSE counter

\* steps 1 to 7: the candidate before the duplicate check
CleanName(name) ==
    LET n0 == IF name = "" THEN "sin_nombre" ELSE name
        n4 == CollapseSeparators(RemoveSpecial(ReplaceSpaces(StrStrip(StrLower(n0)))))
        n5 == IF n4 # "" /\ IsDigit(CharAt(n4, 1)) THEN "tabla_" \o n4 ELSE n4
        n6 == IF n5 = "" THEN "sin_nombre" ELSE n5
    IN Prefix(n6, NameLimit)

\* "[n.lower() for n in existing_names]"
ExistingLower(existing) == {StrLower(existing[i]) : i \in DOMAIN existing}

\* normalize_name(name, existing_names)
NormalizeName(name, existing) ==
    LET normalized == CleanName(name)
        existing_lower == ExistingLower(existing)
        m == SuffixStart(normalized)
        counter == IF m > 0
                   THEN StrToInt(SubSeq(normalized, m + 1, Len(normalized))) + 1
                   ELSE 1
        base_name == IF m > 0 THEN SubSeq(normalized, 1, m - 1) ELSE normalized
    IN IF existing # <<>> /\ normalized \in existing_lower
       THEN base_name \o "_" \o IntToStr(NextFree(base_name, counter, existing_lower))
       ELSE normalized

\* the outcome of a call: validate_sheet_name returns (is_valid, normalized,
\* error), with "" standing for None; normalize_name returns normalized
NameOutcome(ok, normalized, error) ==
    [is_valid |-> ok, normalized |-> normalized, error |-> error]

\* validate_sheet_name(name, existing_names)
ValidateSheetName(name, existing) ==
    LET normalized == NormalizeName(name, existing)
    IN IF name = "" \/ StrStrip(name) = ""
       THEN NameOutcome(FALSE, "", "El nombre no puede estar vacío")
       ELSE IF Len(normalized) > 128
       THEN NameOutcome(FALSE, "", "El nombre excede 128 caracteres")
       ELSE IF IsDigit(CharAt(normalized, 1))
       THEN NameOutcome(FALSE, "", "El nombre no puede empezar con número")
       ELSE IF existing # <<>> /\ StrLower(normalized) \in ExistingLower(existing)
       THEN NameOutcome(FALSE, "", "El nombre ya existe")
       ELSE NameOutcome(TRUE, normalized, "")

RECURSIVE Repeat(_, _)
\* c * n
Repeat(c, n) ==
    IF n = 0 THEN ""
    ELSE IF n = 1 THEN c
    ELSE Repeat(c, n \div 2) \o Repeat(c, n - (n \div 2))

\* a name longer than the limit
LongName == Repeat("a", NameLimit + 2)

\* names the caller passes
RawNames == {"Ventas", "ventas", "ventas_1", " 1 a-_b!", "", LongName}

\* lists the caller starts from
InitialExisting == {<<>>, <<"Ventas">>, <<"hoja", "hoja_1">>}

NoNameCall == [fn |-> "none", name |-> "", existing |-> <<>>,
               out |-> NameOutcome(FALSE, "", "")]

\* a call of normalize_name whose result the caller adds to the list it
\* passes to the next call
NormalizeNameCall ==
    /\ pc = "names"
    /\ Len(existing_names) < MaxNames
    /\ \E name \in RawNames :
         LET r == NormalizeName(name, existing_names)
         IN /\ name_call' = [fn |-> "normalize_name", name |-> name,
                             existing |-> existing_names,
                             out |-> NameOutcome(TRUE, r, "")]
            /\ existing_names' = Append(existing_names, r)
    /\ UNCHANGED <<nv_in, nv_out, nv_dt, frameVars, inferVars, procVars, saveVars, utilVars>>

\* a call of validate_sheet_name against the caller's list
ValidateSheetNameCall ==
    /\ pc = "names"
    /\ \E name \in RawNames :
         name_call' = [fn |-> "validate_sheet_name", name |-> name,
                       existing |-> existing_names,
                       out |-> ValidateSheetName(name, existing_names)]
    /\ UNCHANGED <<existing_names, nv_in, nv_out, nv_dt, frameVars, inferVars, procVars, saveVars, utilVars>>

\* ------------------------------------------------ validators.infer_sql_type
MaxNumeric == 9
MaxText == 2

\* the values a column of the model can hold: texts (dtype object), by what
\* they are to the conversions of the function
SeriesValues == {"1", "0", "true", "false", "yes", "7", "2.5", "abc", "2024-01-15"}

\* a column, as the number of times it holds each value and null; the
\* function looks at the values of the column and not at their order
SeriesInputs ==
    [one : 0..1, zero : 0..1, tru : 0..1, fals : 0..1, yes : 0..1,
     int : 0..MaxNumeric, dec : 0..1, txt : 0..MaxText, date : 0..1, null : 0..1]

\* how many cells of the column hold the value x
CountOf(ser, x) ==
    CASE x = "1" -> ser.one [] x = "0" -> ser.zero [] x = "true" -> ser.tru
      [] x = "false" -> ser.fals [] x = "yes" -> ser.yes [] x = "7" -> ser.int
      [] x = "2.5" -> ser.dec [] x = "abc" -> ser.txt [] OTHER -> ser.date

RECURSIVE SumCounts(_, _)
SumCounts(ser, S) ==
    IF S = {} THEN 0
    ELSE LET x == CHOOSE y \in S : TRUE
         IN CountOf(ser, x) + SumCounts(ser, S \ {x})

\* len(non_null)
NonNull(ser) == SumCounts(ser, SeriesValues)

\* "set(non_null.dropna().astype(str).str.lower().unique())"
UniqueValues(ser) == {StrLower(x) : x \in {y \in SeriesValues : CountOf(ser, y) > 0}}

bool_values == {"true", "false", "1", "0", "s", "n", "si", "sí", "no", "yes"}

\* "unique_values.issubset(bool_values) and len(unique_values) <= 4"
IsBooleanLike(unique_values) ==
    unique_values \subseteq bool_values /\ Cardinality(unique_values) <= 4

\* pd.to_numeric(non_null, errors='coerce').notna().sum()
NumericTexts == {"1", "0", "7", "2.5"}
NumericCount(ser) == SumCounts(ser, NumericTexts)

\* "(numeric_converted == numeric_converted.astype(int, errors='ignore')).all()":
\* a NaN in the converted column compares unequal to itself
AllWholeNumbers(ser) == NumericCount(ser) = NonNull(ser) /\ ser.dec = 0

\* pd.to_datetime(non_null, errors='coerce').notna().sum(): date texts parse,
\* free texts do not, what the parser makes of bare numbers depends on its version
DateCounts(ser) == {ser.date + k : k \in 0..NumericCount(ser)}

\* "rate > 0.9" for rate = k / n: the quotient of the model's counts is
\* above 0.9 as a float exactly when 10 k > 9 n
RateAbove(k, n) == 10 * k > 9 * n

\* non_null.astype(str).str.len().max()
MaxLength(ser) ==
    LET lens == {Len(x) : x \in {y \in SeriesValues : CountOf(ser, y) > 0}}
    IN CHOOSE m \in lens : \A l \in lens : l <= m

\* the size tiers of the text type
VarcharSize(max_length) ==
    IF max_length <= 50 THEN 50
    ELSE IF max_length <= 100 THEN 100
    ELSE IF max_length <= 255 THEN 255
    ELSE IF max_length <= 500 THEN 500
    ELSE IF (max_length * 125) \div 100 > 1000 THEN (max_length * 125) \div 100 ELSE 1000

\* a float of the result, as the quotient num / den
Rate(k, n) == [num |-> k, den |-> n]

\* the result dict
InferResult(ty, conf, nullable, default_value, warnings, mixed) ==
    [called |-> TRUE, sql_type |-> ty, confidence |-> conf, nullable |-> nullable,
     default_value |-> default_value, warnings |-> warnings, mixed_types |-> mixed]

NoInferResult ==
    [called |-> FALSE, sql_type |-> "", confidence |-> Rate(0, 1), nullable |-> FALSE,
     default_value |-> PyNone, warnings |-> <<>>, mixed_types |-> FALSE]

\* infer_sql_type(series) on a column of texts; date_ok is what the date
\* coercion of the column gave
InferSqlType(ser, date_ok) ==
    LET total_count == NonNull(ser) + ser.null
        n == NonNull(ser)
        nullable == 100 * ser.null > 5 * total_count
        k == NumericCount(ser)
    IN IF n = 0
       THEN InferResult("NVARCHAR(255)", Rate(0, 1), TRUE, PyNone,
                        <<"Columna completamente vacía">>, FALSE)
       ELSE IF IsBooleanLike(UniqueValues(ser))
       THEN InferResult("BIT", Rate(1, 1), nullable, PyStr("0"), <<>>, FALSE)
       ELSE IF RateAbove(k, n)
       THEN InferResult(IF AllWholeNumbers(ser) THEN "INT" ELSE "FLOAT",
                        Rate(k, n), nullable,
                        IF AllWholeNumbers(ser) THEN PyStr("0") ELSE PyStr("0.0"),
                        IF k < n THEN <<"valores no numéricos">> ELSE <<>>,
                        k < n)
       ELSE IF RateAbove(date_ok, n)
       THEN InferResult("DATE", Rate(date_ok, n), nullable, PyStr("GETDATE()"),
                        IF date_ok < n THEN <<"valores no convertibles a fecha">>
                        ELSE <<>>,
                        date_ok < n)
       ELSE InferResult("NVARCHAR(" \o IntToStr(VarcharSize(MaxLength(ser))) \o ")",
                        Rate(1, 1), nullable, PyStr("''"), <<>>, FALSE)

\* one call of infer_sql_type on the column inf_series
InferCall ==
    /\ pc = "infer"
    /\ ~inf_out.called
    /\ \E d \in {x \in DateCounts(inf_series) : x <= NonNull(inf_series)} :
         inf_out' = InferSqlType(inf_series, d)
    /\ UNCHANGED <<inf_series, nv_in, nv_out, nv_dt, frameVars, nameVars,
                   procVars, saveVars, utilVars>>

\* ------------------------- sql_utils.validate_structure_before_execution
\* Integers of a column may leave the 32-bit range, so they are kept as a
\* sign and a magnitude of two decimal limbs: sg * (hi * 10^6 + lo)
Wide(sg, hi, lo) == [sg |-> sg, hi |-> hi, lo |-> lo]

MagLess(a, b) == a.hi < b.hi \/ (a.hi = b.hi /\ a.lo < b.lo)

\* a < b
WideLess(a, b) ==
    IF a.sg # b.sg THEN a.sg < b.sg
    ELSE IF a.sg = 1 THEN MagLess(a, b) ELSE MagLess(b, a)

\* valores_numericos.max() / .min()
WideMax(S) == CHOOSE m \in S : \A x \in S : ~WideLess(m, x)
WideMin(S) == CHOOSE m \in S : \A x \in S : ~WideLess(x, m)

\* the literals of the range checks
TinyintMin == Wide(1, 0, 0)
TinyintMax == Wide(1, 0, 255)
SmallintMin == Wide(-1, 0, 32768)
SmallintMax == Wide(1, 0, 32767)
IntMin == Wide(-1, 2147, 483648)
IntMax == Wide(1, 2147, 483647)

\* str(n) of an integer
WideStr(w) ==
    (IF w.sg = -1 THEN "-" ELSE "")
        \o (IF w.hi = 0 THEN IntToStr(w.lo)
            ELSE IntToStr(w.hi)
                   \o Repeat("0", 6 - Len(IntToStr(w.lo))) \o IntToStr(w.lo))

\* cells of the DataFrame column: None, an integer or a text
VNone == [t |-> "none", w |-> Wide(1, 0, 0), s |-> ""]
VInt(w) == [t |-> "int", w |-> w, s |-> ""]
VStr(x) == [t |-> "str", w |-> Wide(1, 0, 0), s |-> x]

\* a mapping key that is not present in the column's config
Absent == "<absent>"

\* config.get(key, default)
ConfigGet(config, key, default) ==
    IF config[key] = Absent THEN default ELSE config[key]

UpperMap == [a |-> "A", b |-> "B", c |-> "C", d |-> "D", e |-> "E", f |-> "F",
             g |-> "G", h |-> "H", i |-> "I", j |-> "J", k |-> "K", l |-> "L",
             m |-> "M", n |-> "N", o |-> "O", p |-> "P", q |-> "Q", r |-> "R",
             s |-> "S", t |-> "T", u |-> "U", v |-> "V", w |-> "W", x |-> "X",
             y |-> "Y", z |-> "Z"]

UpperChar(c) == IF c \in DOMAIN UpperMap THEN UpperMap[c] ELSE c

RECURSIVE StrUpper(_)
\* str.upper()
StrUpper(str) ==
    IF Len(str) <= 1 THEN UpperChar(str)
    ELSE LET h == Len(str) \div 2
         IN StrUpper(SubSeq(str, 1, h)) \o StrUpper(SubSeq(str, h + 1, Len(str)))

\* "sub in str"
Contains(sub, str) ==
    \E i \in 1..(Len(str) - Len(sub) + 1) : SubSeq(str, i, i + Len(sub) - 1) = sub

\* "any(t in sql_type for t in [...])"
AnyIn(subs, str) == \E sub \in subs : Contains(sub, str)

IsDigits(str) == str # "" /\ \A i \in 1..Len(str) : IsDigit(CharAt(str, i))

\* re.search(r'\((\d+)\)', sql_type): the spans "(digits)" of the text
SizeMatches(sql_type) ==
    { <<i, j>> \in (1..Len(sql_type)) \X (1..Len(sql_type)) :
        /\ i + 1 < j
        /\ CharAt(sql_type, i) = "("
        /\ CharAt(sql_type, j) = ")"
        /\ IsDigits(SubSeq(sql_type, i + 1, j - 1)) }

\* int(match.group(1)) of the leftmost match
MaxLengthDefinido(sql_type) ==
    LET m == CHOOSE p \in SizeMatches(sql_type) :
                 \A q \in SizeMatches(sql_type) : p[1] <= q[1]
    IN StrToInt(SubSeq(sql_type, m[1] + 1, m[2] - 1))

\* sql_type.split('(')[0]
TipoBase(sql_type) ==
    IF ~Contains("(", sql_type) THEN sql_type
    ELSE LET i == CHOOSE k \in 1..Len(sql_type) :
                     /\ CharAt(sql_type, k) = "("
                     /\ \A l \in 1..(k - 1) : CharAt(sql_type, l) # "("
         IN SubSeq(sql_type, 1, i - 1)

\* "int(max_length_real * 1.25)": the product is exact in binary floating
\* point and int() drops its fraction
NuevoTamano(max_length_real) == (max_length_real * 5) \div 4

\* df[col].dropna()
DropNa(cells) == SelectSeq(cells, LAMBDA c : c.t # "none")

\* pandas holds a column of integers with a missing cell as float64
IsFloatColumn(cells) ==
    /\ \E i \in DOMAIN cells : cells[i].t = "none"
    /\ \E i \in DOMAIN cells : cells[i].t = "int"
    /\ \A i \in DOMAIN cells : cells[i].t \in {"none", "int"}

\* .astype(str) of a cell
CellStr(c, float_col) ==
    IF c.t = "str" THEN c.s
    ELSE WideStr(c.w) \o (IF float_col THEN ".0" ELSE "")

\* pd.to_numeric(..., errors='coerce') gives NaN: the texts of the model
\* carry no sign, point, exponent or blank, so a text is numeric when it
\* is all digits
IsNumericNaN(c) == c.t = "str" /\ ~IsDigits(c.s)

NumericOf(c) == IF c.t = "int" THEN c.w ELSE Wide(1, 0, StrToInt(c.s))

\* pd.to_datetime(..., errors='coerce') gives NaT: texts of letters never
\* parse; numbers and digit texts parse or not (dt) with the pandas version
IsDateNaT(c, dt) == IF c.t = "str" /\ ~IsDigits(c.s) THEN TRUE ELSE ~dt

\* the values the BIT branch takes as usual
BitValidValues == {"true", "false", "1", "0", "yes", "no",
                   "si", "sí", "y", "n", "t", "f"}

\* literal of the column / table name length checks
ColumnNameLimit == 128

\* re.findall(r'[^\w\-\_]', nombre_sql) is not empty
HasInvalidChars(nombre_sql) ==
    \E i \in 1..Len(nombre_sql) :
        LET c == CharAt(nombre_sql, i)
        IN ~(IsLowerLetter(c) \/ c \in DOMAIN LowerMap \/ IsDigit(c)
             \/ c = "_" \/ c = "-")

VError(tipo) == [tipo |-> tipo, columna |-> "col"]

VSuggest(tipo, actual, sugerido) ==
    [tipo |-> tipo, accion |-> "CAMBIAR_TIPO", columna |-> "col",
     valor_actual |-> actual, valor_sugerido |-> sugerido]

\* section 1: the name of the column
NameErrors(config) ==
    LET nombre_sql == ConfigGet(config, "renamed_to", "col")
    IN (IF Len(nombre_sql) > ColumnNameLimit
        THEN <<VError("NOMBRE_COLUMNA_LARGO")>> ELSE <<>>)
       \o (IF HasInvalidChars(nombre_sql)
           THEN <<VError("NOMBRE_COLUMNA_INVALIDO")>> ELSE <<>>)
       \o (IF nombre_sql # "" /\ IsDigit(CharAt(nombre_sql, 1))
           THEN <<VError("NOMBRE_COLUMNA_EMPIEZA_NUMERO")>> ELSE <<>>)

\* "'INT' if max_val <= 2147483647 else 'BIGINT'"
SuggestFromMax(max_val) == IF ~WideLess(IntMax, max_val) THEN "INT" ELSE "BIGINT"

\* section 3, integer types: the subtype suggested after a range error
\* ("" when the range holds or the subtype has no check)
RangeSuggestion(sql_type, min_val, max_val) ==
    IF Contains("TINYINT", sql_type)
    THEN (IF WideLess(TinyintMax, max_val) \/ WideLess(min_val, TinyintMin)
          THEN SuggestFromMax(max_val) ELSE "")
    ELSE IF Contains("SMALLINT", sql_type)
    THEN (IF WideLess(SmallintMax, max_val) \/ WideLess(min_val, SmallintMin)
          THEN SuggestFromMax(max_val) ELSE "")
    ELSE IF sql_type = "INT"
    THEN (IF WideLess(IntMax, max_val) \/ WideLess(min_val, IntMin)
          THEN "BIGINT" ELSE "")
    ELSE ""

\* section 3: [e |-> errores, a |-> advertencias, s |-> sugerencias] of the
\* type checks of the column
TypeFindings(cells, sql_type, dt) ==
    LET serie_valida == DropNa(cells)
        none == [e |-> <<>>, a |-> <<>>, s |-> <<>>]
        invalid_num == \E i \in DOMAIN serie_valida : IsNumericNaN(serie_valida[i])
        nums == {NumericOf(serie_valida[i]) : i \in DOMAIN serie_valida}
        float_col == IsFloatColumn(cells)
    IN IF Len(serie_valida) = 0 THEN none
       ELSE IF AnyIn({"INT", "BIGINT", "SMALLINT", "TINYINT"}, sql_type)
       THEN (IF invalid_num
             THEN [e |-> <<VError("TIPO_INCOMPATIBLE_INT")>>, a |-> <<>>,
                   s |-> <<VSuggest("AUTO_FIX", sql_type, "NVARCHAR(255)")>>]
             ELSE LET sug == RangeSuggestion(sql_type, WideMin(nums), WideMax(nums))
                  IN IF sug = "" THEN none
                     ELSE [e |-> <<VError("RANGO_EXCEDIDO")>>, a |-> <<>>,
                           s |-> <<VSuggest("AUTO_FIX", sql_type, sug)>>])
       ELSE IF AnyIn({"FLOAT", "REAL", "DECIMAL", "NUMERIC", "MONEY"}, sql_type)
       THEN (IF invalid_num
             THEN [e |-> <<VError("TIPO_INCOMPATIBLE_DECIMAL")>>, a |-> <<>>,
                   s |-> <<VSuggest("AUTO_FIX", sql_type, "NVARCHAR(255)")>>]
             ELSE none)
       ELSE IF AnyIn({"DATE", "DATETIME", "TIME", "TIMESTAMP"}, sql_type)
       THEN (IF \E i \in DOMAIN serie_valida :
                    /\ IsDateNaT(serie_valida[i], dt)
                    /\ StrUpper(CellStr(serie_valida[i], float_col))
                           \notin {"GETDATE()", "NOW()", ""}
             THEN [e |-> <<>>, a |-> <<VError("TIPO_FECHA_INCOMPATIBLE")>>,
                   s |-> <<>>]
             ELSE none)
       ELSE IF Contains("BIT", sql_type)
       THEN (IF \E i \in DOMAIN serie_valida :
                    StrLower(CellStr(serie_valida[i], float_col))
                        \notin BitValidValues
             THEN [e |-> <<>>, a |-> <<VError("TIPO_BIT_INUSUAL")>>, s |-> <<>>]
             ELSE none)
       ELSE none

\* int(longitudes.max())
MaxLengthReal(cells) ==
    LET serie == DropNa(cells)
        lens == {Len(CellStr(serie[i], IsFloatColumn(cells))) : i \in DOMAIN serie}
    IN CHOOSE m \in lens : \A l \in lens : l <= m

\* section 4: the findings of the size check of the column
SizeFindings(cells, sql_type) ==
    LET none == [e |-> <<>>, a |-> <<>>, s |-> <<>>]
    IN IF ~AnyIn({"VARCHAR", "NVARCHAR", "CHAR"}, sql_type) THEN none
       ELSE IF SizeMatches(sql_type) = {} THEN none
       ELSE IF Len(DropNa(cells)) = 0 THEN none
       ELSE LET max_length_definido == MaxLengthDefinido(sql_type)
                max_length_real == MaxLengthReal(cells)
                sugerido == TipoBase(sql_type) \o "("
                               \o IntToStr(NuevoTamano(max_length_real)) \o ")"
            IN IF max_length_real > max_length_definido
               THEN [e |-> <<VError("SIZE_EXCEDIDO")>>, a |-> <<>>,
                     s |-> <<VSuggest("AUTO_FIX", sql_type, sugerido)>>]
               ELSE IF max_length_real * 2 < max_length_definido
               THEN [e |-> <<>>, a |-> <<VError("SIZE_SOBREDIMENSIONADO")>>,
                     s |-> <<VSuggest("OPTIMIZACION", sql_type, sugerido)>>]
               ELSE none

NoFindings == [called |-> FALSE, errores |-> <<>>, advertencias |-> <<>>,
               sugerencias |-> <<>>]

\* validate_structure_before_execution(df, {"col": config}) for a frame
\* whose only column is "col" (in_df) or that lacks the mapped column
ValidateStructure(cells, config, in_df, dt) ==
    LET sql_type == StrUpper(ConfigGet(config, "sql_type", "NVARCHAR(255)"))
        ty == TypeFindings(cells, sql_type, dt)
        sz == SizeFindings(cells, sql_type)
    IN IF ~in_df
       THEN [called |-> TRUE, errores |-> <<VError("COLUMNAS_FALTANTES")>>,
             advertencias |-> <<>>, sugerencias |-> <<>>]
       ELSE [called |-> TRUE,
             errores |-> NameErrors(config) \o ty.e \o sz.e,
             advertencias |-> ty.a \o sz.a,
             sugerencias |-> ty.s \o sz.s]

\* columns and configurations of the model
ValidateValues ==
    {VNone, VInt(Wide(-1, 3000, 0)), VInt(Wide(-1, 0, 5)), VInt(Wide(1, 0, 0)),
     VInt(Wide(1, 0, 300)), VInt(Wide(1, 0, 40000)), VInt(Wide(1, 3000, 0)),
     VStr("1"), VStr("si"), VStr("abc"), VStr(Repeat("x", 60)),
     VStr(Repeat("x", 75))}

ValidateColumns ==
    UNION {[1..n -> ValidateValues] : n \in 0..MaxCells}

ValidateTypes == {"TINYINT", "smallint", "INT", "BIGINT", "FLOAT", "DATETIME",
                  "BIT", "NVARCHAR(50)", "VARCHAR(3)", "NVARCHAR(MAX)", Absent}

ValidateConfigs == [sql_type : ValidateTypes, renamed_to : {Absent, "1 col"}]

ValidateInputs == [cells : ValidateColumns, config : ValidateConfigs,
                   in_df : BOOLEAN]

ValidateIdleInput == [cells |-> <<>>,
                      config |-> [sql_type |-> Absent, renamed_to |-> Absent],
                      in_df |-> TRUE]

\* one call of validate_structure_before_execution
ValidateCall ==
    /\ pc = "validate_structure"
    /\ ~vs_out.called
    /\ \E dt \in BOOLEAN :
         vs_out' = ValidateStructure(vs_in.cells, vs_in.config, vs_in.in_df, dt)
    /\ UNCHANGED <<vs_in, nv_in, nv_out, nv_dt, frameVars, nameVars, inferVars,
                   procVars, saveVars, vocVars, runVars>>

\* ---------------------------------------- one value through the three stages
\* the texts of the boolean vocabulary, and one text outside it
VocabularyTokens == {"true", "false", "1", "0", "yes", "no", "si", "sí",
                     "y", "n", "t", "f", "s", "abc"}

VocabularyInputs == [token : VocabularyTokens, nullable : BOOLEAN,
                     default_value : {PyNone, PyStr("0")}]

VocabularyIdleInput == [token |-> "", nullable |-> TRUE, default_value |-> PyNone]

NoVocabularyResult == [profiled |-> "none", validated |-> "none",
                       normalized |-> NotRun, fallback |-> FALSE]

\* infer_sql_type on a column whose cells all hold the text: BIT when the
\* boolean test takes it, another type from the later tests otherwise
ProfileToken ==
    /\ pc = "vocabulary"
    /\ voc_out.profiled = "none"
    /\ voc_out' = [voc_out EXCEPT !.profiled =
                      IF IsBooleanLike({StrLower(voc_in.token)})
                      THEN "BIT" ELSE "other"]
    /\ UNCHANGED <<voc_in, nv_in, nv_out, nv_dt, frameVars, nameVars, inferVars,
                   procVars, saveVars, validateVars, runVars>>

\* validate_structure_before_execution on that column declared BIT
ValidateToken ==
    /\ pc = "vocabulary"
    /\ voc_out.validated = "none"
    /\ \E dt \in BOOLEAN :
         LET r == ValidateStructure(<<VStr(voc_in.token)>>,
                                    [sql_type |-> "BIT", renamed_to |-> Absent],
                                    TRUE, dt)
         IN voc_out' = [voc_out EXCEPT !.validated =
                           IF \E i \in DOMAIN r.advertencias :
                                  r.advertencias[i].tipo = "TIPO_BIT_INUSUAL"
                           THEN "warning" ELSE "ok"]
    /\ UNCHANGED <<voc_in, nv_in, nv_out, nv_dt, frameVars, nameVars, inferVars,
                   procVars, saveVars, validateVars, runVars>>

\* normalize_value_by_type on the text with sql_type BIT (the BIT branch
\* does not call pd.to_datetime)
NormalizeToken ==
    /\ pc = "vocabulary"
    /\ voc_out.normalized = NotRun
    /\ voc_out' = [voc_out EXCEPT
                      !.normalized = NormalizeValueByType(PyStr(voc_in.token),
                                         "BIT", voc_in.nullable,
                                         voc_in.default_value, NotRun),
                      !.fallback = ConversionFailed(PyStr(voc_in.token), "BIT",
                                                    NotRun)]
    /\ UNCHANGED <<voc_in, nv_in, nv_out, nv_dt, frameVars, nameVars, inferVars,
                   procVars, saveVars, validateVars, runVars>>

\* ------------------------------------------------------ MigrationProcess.run
\* run() is not executing: the process keeps the status of a new row
RunIdle ==
    /\ status = "draft"
    /\ saved_status = "draft"
    /\ run_exit = "none"
    /\ run_faults = {}

\* what run() leaves alone: the locals of the aggregator and of the save
runRest == <<procRest, saveVars, nv_in, nv_out, nv_dt, frameVars, nameVars,
             inferVars, validateVars, vocVars>>

\* "self.refresh_from_db(); self.status = 'running'; self.save()"
RunBegin ==
    /\ pc = "run_begin"
    /\ \E o \in {"ok", "refresh_fails", "save_fails"} :
         /\ status' = IF o = "refresh_fails" THEN status ELSE "running"
         /\ saved_status' = IF o = "ok" THEN "running" ELSE saved_status
         /\ run_faults' = IF o = "ok" THEN run_faults
                           ELSE run_faults \cup {IF o = "save_fails" THEN "save"
                                                 ELSE "refresh"}
         /\ run_exit' = IF o = "ok" THEN run_exit ELSE "raised"
         /\ pc' = IF o = "ok" THEN "run_log" ELSE "run_done"
    /\ UNCHANGED runRest

\* update_ultima_ejecucion (its errors are printed), then outside of any
\* try: MigrationLog.log(...) and ProcessTracker(self.name)
RunLog ==
    /\ pc = "run_log"
    /\ \E ok \in BOOLEAN :
         /\ run_faults' = IF ok THEN run_faults ELSE run_faults \cup {"log"}
         /\ run_exit' = IF ok THEN run_exit ELSE "raised"
         /\ pc' = IF ok THEN "run_dispatch" ELSE "run_done"
    /\ UNCHANGED <<status, saved_status>>
    /\ UNCHANGED runRest

\* inside the try: tracker.iniciar(...), then the aggregator of the source
\* type is called
RunDispatch ==
    /\ pc = "run_dispatch"
    /\ \E ok \in BOOLEAN :
         /\ run_faults' = IF ok THEN run_faults ELSE run_faults \cup {"iniciar"}
         /\ pc' = IF ok THEN "start" ELSE "run_except"
    /\ UNCHANGED <<status, saved_status, run_exit>>
    /\ UNCHANGED runRest

\* "if success: self.status = 'completed' ... return success, result_info
\*  else: self.status = 'failed' ... raise Exception(error_completo)";
\* MigrationLog.log / tracker.finalizar_exito of the success branch may raise
RunAfterAggregator ==
    /\ pc = "done"
    /\ result.returned
    /\ IF result.success
       THEN /\ status' = "completed"
            /\ \E ok \in BOOLEAN :
                 /\ run_faults' = IF ok THEN run_faults
                                   ELSE run_faults \cup {"finalizar"}
                 /\ run_exit' = IF ok THEN "returned" ELSE run_exit
                 /\ pc' = IF ok THEN "run_finally" ELSE "run_except"
       ELSE /\ status' = "failed"
            /\ pc' = "run_except"
            /\ UNCHANGED <<run_faults, run_exit>>
    /\ UNCHANGED saved_status
    /\ UNCHANGED runRest

\* "except Exception as e: self.status = 'failed' ... raise e": reached from
\* a raise inside the try, the aggregator's included; the log and tracker
\* calls of the handler may raise in their turn
RunExcept ==
    /\ pc \in {"run_except", "raised"}
    /\ status' = "failed"
    /\ \E ok \in BOOLEAN :
         run_faults' = IF ok THEN run_faults ELSE run_faults \cup {"handler"}
    /\ run_exit' = "raised"
    /\ pc' = "run_finally"
    /\ UNCHANGED saved_status
    /\ UNCHANGED runRest

\* "finally: self.save()"
RunFinally ==
    /\ pc = "run_finally"
    /\ \E ok \in BOOLEAN :
         /\ saved_status' = IF ok THEN status ELSE saved_status
         /\ run_faults' = IF ok THEN run_faults ELSE run_faults \cup {"save"}
         /\ run_exit' = IF ok THEN run_exit ELSE "raised"
    /\ pc' = "run_done"
    /\ UNCHANGED status
    /\ UNCHANGED runRest

RunNext ==
    \/ RunBegin \/ RunLog \/ RunDispatch \/ RunAfterAggregator
    \/ RunExcept \/ RunFinally

\* ------------------------------------------------------------ specification
\* no frame is being normalized
FrameIdle ==
    /\ df_cells = <<>>
    /\ df_cfg = FrameIdleCfg
    /\ df_applied = <<>>
    /\ df_result = <<>>
    /\ df_warnings = <<>>
    /\ df_log = 0

EmptySeries == [one |-> 0, zero |-> 0, tru |-> 0, fals |-> 0, yes |-> 0,
                int |-> 0, dec |-> 0, txt |-> 0, date |-> 0, null |-> 0]

\* no column is being inferred
InferIdle ==
    /\ inf_series = EmptySeries
    /\ inf_out = NoInferResult

\* no name has been normalized
NamesIdle ==
    /\ existing_names = <<>>
    /\ name_call = NoNameCall

\* the migration process and the save are not running
ProcessIdle ==
    /\ source_type = "excel"
    /\ hoja_index = 0
    /\ hojas_procesadas = <<>>
    /\ hojas_con_error = <<>>
    /\ total_registros_procesados = 0
    /\ tracker_hoja = 0
    /\ proceso_id_hoja = 0
    /\ tracker_final = [u \in Units |-> "none"]
    /\ selected = SelectedSheets
    /\ tablas_data = <<>>
    /\ tablas_exitosas = 0
    /\ tablas_con_error = ErrList(0)
    /\ total_registros = 0
    /\ result = NoOutcome
    /\ spc = "idle"
    /\ unit = NoUnit
    /\ conn = "none"
    /\ cursor = "none"
    /\ tables = [u \in Units |-> AbsentTable]
    /\ tx = tables
    /\ validated = "none"
    /\ ddl = {}
    /\ dropped_existing = FALSE
    /\ registros_insertados = 0
    /\ faults = {}
    /\ save_result = NoResult
    /\ sql_columns = NoColumns
    /\ table_before = AbsentTable

\* no structure is being validated
UtilIdle ==
    /\ vs_in = ValidateIdleInput
    /\ vs_out = NoFindings
    /\ voc_in = VocabularyIdleInput
    /\ voc_out = NoVocabularyResult
    /\ RunIdle

NvIdle == [value |-> PyNone, sql_type |-> "INT", nullable |-> TRUE,
           default_value |-> PyNone]

Init ==
    /\ source_type \in {"excel", "sql"}
    /\ pc = "start"
    /\ hoja_index = 0
    /\ hojas_procesadas = <<>>
    /\ hojas_con_error = <<>>
    /\ total_registros_procesados = 0
    /\ tracker_hoja = 0
    /\ proceso_id_hoja = 0
    /\ tracker_final = [u \in Units |-> "none"]
    /\ selected \in (IF source_type = "excel" THEN {SelectedSheets}
                      ELSE SelectedTables)
    /\ tablas_data = <<>>
    /\ tablas_exitosas = 0
    /\ tablas_con_error = ErrList(0)
    /\ total_registros = 0
    /\ result = NoOutcome
    /\ spc = "idle"
    /\ unit = NoUnit
    /\ conn = "none"
    /\ cursor = "none"
    /\ tables \in [Units -> {AbsentTable, OldTable}]
    /\ tx = tables
    /\ validated = "none"
    /\ ddl = {}
    /\ dropped_existing = FALSE
    /\ registros_insertados = 0
    /\ faults = {}
    /\ save_result = NoResult
    /\ sql_columns = NoColumns
    /\ table_before = AbsentTable
    /\ nv_in = NvIdle
    /\ nv_out = NotRun
    /\ nv_dt = NotRun
    /\ FrameIdle
    /\ NamesIdle
    /\ InferIdle
    /\ UtilIdle

Next == SaveNext \/ ExcelNext \/ SqlNext

Spec == Init /\ [][Next]_vars

\* run() around the aggregator of the process
InitRun ==
    /\ source_type \in {"excel", "sql"}
    /\ pc = "run_begin"
    /\ hoja_index = 0
    /\ hojas_procesadas = <<>>
    /\ hojas_con_error = <<>>
    /\ total_registros_procesados = 0
    /\ tracker_hoja = 0
    /\ proceso_id_hoja = 0
    /\ tracker_final = [u \in Units |-> "none"]
    /\ selected \in (IF source_type = "excel" THEN {SelectedSheets}
                      ELSE SelectedTables)
    /\ tablas_data = <<>>
    /\ tablas_exitosas = 0
    /\ tablas_con_error = ErrList(0)
    /\ total_registros = 0
    /\ result = NoOutcome
    /\ spc = "idle"
    /\ unit = NoUnit
    /\ conn = "none"
    /\ cursor = "none"
    /\ tables \in [Units -> {AbsentTable, OldTable}]
    /\ tx = tables
    /\ validated = "none"
    /\ ddl = {}
    /\ dropped_existing = FALSE
    /\ registros_insertados = 0
    /\ faults = {}
    /\ save_result = NoResult
    /\ sql_columns = NoColumns
    /\ table_before = AbsentTable
    /\ nv_in = NvIdle
    /\ nv_out = NotRun
    /\ nv_dt = NotRun
    /\ FrameIdle
    /\ NamesIdle
    /\ InferIdle
    /\ UtilIdle

NextRun == Next \/ RunNext

SpecRun == InitRun /\ [][NextRun]_vars

\* run() is sequential code that keeps executing until it returns or raises
SpecRunLive == SpecRun /\ WF_vars(NextRun)

\* the value normalizer on its own: every argument tuple of the model, one call
InitNorm ==
    /\ source_type = "excel"
    /\ pc = "normalize"
    /\ hoja_index = 0
    /\ hojas_procesadas = <<>>
    /\ hojas_con_error = <<>>
    /\ total_registros_procesados = 0
    /\ tracker_hoja = 0
    /\ proceso_id_hoja = 0
    /\ tracker_final = [u \in Units |-> "none"]
    /\ selected = SelectedSheets
    /\ tablas_data = <<>>
    /\ tablas_exitosas = 0
    /\ tablas_con_error = ErrList(0)
    /\ total_registros = 0
    /\ result = NoOutcome
    /\ spc = "idle"
    /\ unit = NoUnit
    /\ conn = "none"
    /\ cursor = "none"
    /\ tables = [u \in Units |-> AbsentTable]
    /\ tx = tables
    /\ validated = "none"
    /\ ddl = {}
    /\ dropped_existing = FALSE
    /\ registros_insertados = 0
    /\ faults = {}
    /\ save_result = NoResult
    /\ sql_columns = NoColumns
    /\ table_before = AbsentTable
    /\ nv_in \in NvInputs
    /\ nv_out = NotRun
    /\ nv_dt = NotRun
    /\ FrameIdle
    /\ NamesIdle
    /\ InferIdle
    /\ UtilIdle

NextNorm == NormalizeCall

SpecNorm == InitNorm /\ [][NextNorm]_vars

\* the frame normalizer on its own: one mapped column, every column and
\* configuration of the model
InitFrame ==
    /\ ProcessIdle
    /\ pc = "frame"
    /\ nv_in = NvIdle
    /\ nv_out = NotRun
    /\ nv_dt = NotRun
    /\ df_cells \in FrameColumns
    /\ df_cfg \in FrameConfigs
    /\ df_applied = <<>>
    /\ df_result = df_cells
    /\ df_warnings = <<>>
    /\ df_log = 0
    /\ NamesIdle
    /\ InferIdle
    /\ UtilIdle

NextFrame == FrameColumn \/ FrameApplyCell \/ FrameAssign \/ FrameReturn

SpecFrame == InitFrame /\ [][NextFrame]_vars
\* the name functions on their own: calls against an accumulating list
InitName ==
    /\ ProcessIdle
    /\ pc = "names"
    /\ nv_in = NvIdle
    /\ nv_out = NotRun
    /\ nv_dt = NotRun
    /\ FrameIdle
    /\ existing_names \in InitialExisting
    /\ name_call = NoNameCall
    /\ InferIdle
    /\ UtilIdle

NextName == NormalizeNameCall \/ ValidateSheetNameCall

SpecName == InitName /\ [][NextName]_vars
\* the type inference on its own: every column of the model, one call
InitInfer ==
    /\ ProcessIdle
    /\ pc = "infer"
    /\ nv_in = NvIdle
    /\ nv_out = NotRun
    /\ nv_dt = NotRun
    /\ FrameIdle
    /\ NamesIdle
    /\ inf_series \in SeriesInputs
    /\ inf_out = NoInferResult
    /\ UtilIdle

NextInfer == InferCall

SpecInfer == InitInfer /\ [][NextInfer]_vars

\* the structure validator on its own: every column and configuration of
\* the model, one call
InitValidate ==
    /\ ProcessIdle
    /\ pc = "validate_structure"
    /\ nv_in = NvIdle
    /\ nv_out = NotRun
    /\ nv_dt = NotRun
    /\ FrameIdle
    /\ NamesIdle
    /\ InferIdle
    /\ vs_in \in ValidateInputs
    /\ vs_out = NoFindings
    /\ voc_in = VocabularyIdleInput
    /\ voc_out = NoVocabularyResult
    /\ RunIdle

NextValidate == ValidateCall

SpecValidate == InitValidate /\ [][NextValidate]_vars

\* one value through profiler, validator and normalizer, in any order
InitVocabulary ==
    /\ ProcessIdle
    /\ pc = "vocabulary"
    /\ nv_in = NvIdle
    /\ nv_out = NotRun
    /\ nv_dt = NotRun
    /\ FrameIdle
    /\ NamesIdle
    /\ InferIdle
    /\ vs_in = ValidateIdleInput
    /\ vs_out = NoFindings
    /\ voc_in \in VocabularyInputs
    /\ voc_out = NoVocabularyResult
    /\ RunIdle

NextVocabulary == ProfileToken \/ ValidateToken \/ NormalizeToken

SpecVocabulary == InitVocabulary /\ [][NextVocabulary]_vars

\* ------------------------------------------------------------------ claims
Range(f) == {f[i] : i \in DOMAIN f}

\* units of the loop that have an entry in the succeeded / failed records
SheetsRecorded == {e.sheet : e \in Range(hojas_procesadas)}
                      \cup {e.sheet : e \in Range(hojas_con_error)}

Consolidated == result.returned /\ result.ptype \in {"excel_multi_sheet", "sql_multi_table"}

\* C1: validation of a unit's column mappings completes before any DDL of
\* the unit, and a validation that reports errors leaves the unit without
\* DDL and without inserted rows.
C1_ValidationGatesDDL ==
    /\ (HasMappings(unit.cfg) /\ unit.n > 0 /\ ddl # {}) => validated # "none"
    /\ validated = "errors" => (ddl = {} /\ registros_insertados = 0)

\* C2: once the unit loop has started, the process never leaves it before
\* every unit has an outcome: a fault in one unit is recorded as that unit's
\* failure and the loop goes on.
C2_EveryUnitGetsAnOutcome ==
    (pc \in {"outer_except", "done", "raised"} /\ hoja_index > 0) =>
        IF source_type = "excel"
        THEN SheetsRecorded = Units
        ELSE tablas_exitosas + tablas_con_error.n = Len(tablas_data)

C4_EveryUnitCountedOnce ==
    Consolidated => result.ok_count + result.fail_count = result.total_units

\* the steps whose failure reaches the outer handler of the save
FatalSteps == {"connect", "ddl", "validate", "normalize", "commit"}

C6_NoDropOfExistingTable == ~dropped_existing

\* C7: the rows reported for a succeeded unit, and the total of the
\* consolidated outcome, equal the rows committed to the destination tables.
RECURSIVE CommittedRows(_)
CommittedRows(S) ==
    IF S = {} THEN 0
    ELSE LET u == CHOOSE x \in S : TRUE
         IN Len(tables[DestTable(u)].rows) + CommittedRows(S \ {u})

C7_ReportedRowsAreCommittedRows ==
    /\ (pc = "after_save" /\ save_result.ok) =>
          save_result.records_inserted = Len(tables[DestTable(unit.id)].rows)
    /\ \A e \in Range(hojas_procesadas) :
          e.registros = Len(tables[DestTable(e.sheet)].rows)
    /\ (Consolidated /\ source_type = "excel") =>
          result.total_rows = CommittedRows({e.sheet : e \in Range(hojas_procesadas)})

\* C8: when the save is about to return or has returned, its cursor and
\* connection are not open.
C8_ConnectionReleased ==
    spc \in {"summary", "idle"} => (conn # "open" /\ cursor # "open")

C8_Witness ==
    /\ save_result.returned
    /\ ~save_result.ok
    /\ "validate" \in faults
    /\ conn = "closed"
    /\ cursor = "closed"

\* C9: with nullable = false the normalizer never returns a null value.
C9_NotNullableNeverNull ==
    (nv_out.status = "returned" /\ ~nv_in.nullable) => ~PdIsNa(nv_out.val)

\* C10: the normalizer returns a value for every argument tuple, it never raises.
C10_NormalizeNeverRaises == nv_out.status # "raised"

\* C11: an empty or null cell of a non-nullable integer column normalizes to
\* an integer (the default converted to the column's type), never to the
\* default's text; with default "0" the cell becomes the integer 0.
C11_EmptyIntCellBecomesInteger ==
    (nv_out.status = "returned" /\ IsIntType(nv_in.sql_type)
        /\ ~nv_in.nullable /\ IsEmptyValue(nv_in.value)) =>
            /\ nv_out.val.t = "int"
            /\ nv_in.default_value = PyStr("0") => nv_out.val = PyInt(0)

\* C12: a non-empty value that fails conversion normalizes to what an empty
\* value normalizes to for the same type, nullable flag and default.
C12_FailureFallbackIsEmptyFallback ==
    (nv_out.status = "returned"
        /\ ConversionFailed(nv_in.value, nv_in.sql_type, nv_dt)) =>
            nv_out.val = EmptyFallback(nv_in.sql_type, nv_in.nullable,
                                       nv_in.default_value)

\* the call is on a text with content, for a type that declares a length
TextCallWithLength ==
    /\ nv_out.status = "returned"
    /\ nv_in.value.t = "str"
    /\ DeclaredLength(nv_in.sql_type) > 0

\* C13 (as amended): a text that is not empty or blank and is longer than
\* the declared length n comes back as its first n characters, and one no
\* longer than n comes back unchanged.
C13_NonBlankTextCutToDeclaredLength ==
    (TextCallWithLength /\ ~IsEmptyValue(nv_in.value)) =>
        LET n == DeclaredLength(nv_in.sql_type)
            txt == nv_in.value.s
        IN IF Len(txt) > n
           THEN /\ nv_out.val.t = "str"
                /\ Len(nv_out.val.s) = n
                /\ nv_out.val.s = SubSeq(txt, 1, n)
           ELSE nv_out.val = nv_in.value

C13_Witness ==
    /\ TextCallWithLength
    /\ nv_in.value = PyStr("2024-01-15")
    /\ nv_in.sql_type = "VARCHAR(3)"
    /\ nv_out.val = PyStr("202")

\* C13 as stated: every text, blank ones included, is cut to n or unchanged.
C13_EveryTextCutToDeclaredLength ==
    TextCallWithLength =>
        LET n == DeclaredLength(nv_in.sql_type)
            txt == nv_in.value.s
        IN IF Len(txt) > n
           THEN nv_out.val.t = "str" /\ Len(nv_out.val.s) = n
           ELSE nv_out.val = nv_in.value

\* C14: when at least one cell of a mapped column could not be converted and
\* was replaced by the fallback value, the returned warnings list is not empty.
C14_FailedCellsGiveWarnings ==
    (pc = "frame_done" /\ df_log > 0) => df_warnings # <<>>

\* C15: the names of the list built by adding each result of normalize_name
\* are pairwise distinct without regard to case.
C15_NamesPairwiseDistinct ==
    \A i, j \in DOMAIN existing_names :
        i # j => StrLower(existing_names[i]) # StrLower(existing_names[j])

C15_Witness ==
    /\ existing_names = <<"ventas", "ventas_1", "ventas_2">>
    /\ name_call.fn = "normalize_name"
    /\ name_call.name = "Ventas"

\* ^[a-z_][a-z0-9_]*$
IsIdentifier(str) ==
    /\ str # ""
    /\ IsLowerLetter(CharAt(str, 1)) \/ CharAt(str, 1) = "_"
    /\ \A i \in 1..Len(str) :
          IsLowerLetter(CharAt(str, i)) \/ IsDigit(CharAt(str, i)) \/ CharAt(str, i) = "_"

\* C16: every result of normalize_name is a valid identifier of at most 128
\* characters, whatever the list of existing names holds.
C16_ResultIsIdentifierWithinLimit ==
    name_call.fn = "normalize_name" =>
        /\ IsIdentifier(name_call.out.normalized)
        /\ Len(name_call.out.normalized) <= 128

\* C17: normalizing a result again, against the list that now holds it,
\* gives the result back.
C17_IdempotentOnUpdatedList ==
    name_call.fn = "normalize_name" =>
        NormalizeName(name_call.out.normalized,
                      Append(name_call.existing, name_call.out.normalized))
            = name_call.out.normalized

\* C18: validate_sheet_name rejects, with the error that the name already
\* exists, a name whose normalized form is in the list without regard to case.
C18_DuplicateNameRejected ==
    (name_call.fn = "validate_sheet_name"
        /\ CleanName(name_call.name) \in ExistingLower(name_call.existing)) =>
            /\ ~name_call.out.is_valid
            /\ name_call.out.error = "El nombre ya existe"

\* C19: a column whose non-null values are all boolean words is inferred as
\* BIT with confidence 1.0 and default "0".
C19_BooleanColumnIsBit ==
    (inf_out.called /\ NonNull(inf_series) > 0
        /\ UniqueValues(inf_series) \subseteq bool_values) =>
            /\ inf_out.sql_type = "BIT"
            /\ inf_out.confidence.num = inf_out.confidence.den
            /\ inf_out.default_value = PyStr("0")

\* the column is not boolean-like and holds numbers among other texts
MixedNumericColumn ==
    /\ inf_out.called
    /\ ~(UniqueValues(inf_series) \subseteq bool_values)
    /\ NumericCount(inf_series) > 0
    /\ NumericCount(inf_series) < NonNull(inf_series)

\* C20: a text column of which at least 90% (exactly 90% included) but not
\* all non-null values are numbers is inferred as numeric with mixed_types
\* and a warning; a column with some non-numeric values among numeric ones
\* is reported with mixed_types and a warning.
C20_MixedNumericColumnReported ==
    MixedNumericColumn =>
        /\ inf_out.mixed_types
        /\ inf_out.warnings # <<>>
        /\ 10 * NumericCount(inf_series) >= 9 * NonNull(inf_series) =>
              inf_out.sql_type \in {"INT", "FLOAT"}

\* the declared type of the call under validation, as the validator reads it
DeclaredType == StrUpper(ConfigGet(vs_in.config, "sql_type", "NVARCHAR(255)"))

\* the call validated a present column declared with a fixed text length
\* that its longest value exceeds
SizeExceededCall ==
    /\ vs_out.called
    /\ vs_in.in_df
    /\ AnyIn({"VARCHAR", "NVARCHAR", "CHAR"}, DeclaredType)
    /\ SizeMatches(DeclaredType) # {}
    /\ DropNa(vs_in.cells) # <<>>
    /\ MaxLengthReal(vs_in.cells) > MaxLengthDefinido(DeclaredType)

\* ceil(m * 1.25)
CeilQuarterMore(m) == (m * 5 + 3) \div 4

\* C21: when the longest value (M) of a column exceeds its declared text
\* length (L), the validator returns exactly one SIZE error for the column and
\* a suggestion of the same base type with length ceil(M * 1.25).
C21_SizeErrorSuggestsCeil ==
    SizeExceededCall =>
        /\ Cardinality({i \in DOMAIN vs_out.errores :
                           vs_out.errores[i].tipo = "SIZE_EXCEDIDO"}) = 1
        /\ \E i \in DOMAIN vs_out.sugerencias :
              vs_out.sugerencias[i].valor_sugerido =
                  TipoBase(DeclaredType) \o "("
                      \o IntToStr(CeilQuarterMore(MaxLengthReal(vs_in.cells)))
                      \o ")"

\* the ranges of the integer subtypes; every integer of the model lies
\* within BIGINT
InSubtypeRange(v, subtype) ==
    CASE subtype = "TINYINT" -> ~WideLess(v, TinyintMin) /\ ~WideLess(TinyintMax, v)
      [] subtype = "SMALLINT" -> ~WideLess(v, SmallintMin) /\ ~WideLess(SmallintMax, v)
      [] subtype = "INT" -> ~WideLess(v, IntMin) /\ ~WideLess(IntMax, v)
      [] subtype = "BIGINT" -> TRUE
      [] OTHER -> FALSE

ObservedNumbers == {NumericOf(c) : c \in Range(DropNa(vs_in.cells))}

\* the call validated a present, all-numeric column declared TINYINT,
\* SMALLINT or INT with a value outside the range of the declared subtype
OutOfRangeCall ==
    /\ vs_out.called
    /\ vs_in.in_df
    /\ DeclaredType \in {"TINYINT", "SMALLINT", "INT"}
    /\ DropNa(vs_in.cells) # <<>>
    /\ \A c \in Range(DropNa(vs_in.cells)) : ~IsNumericNaN(c)
    /\ \E v \in ObservedNumbers : ~InSubtypeRange(v, DeclaredType)

\* C22: integer values outside the range of the declared subtype give a
\* range error and a suggested subtype whose range contains the observed
\* minimum and the observed maximum.
C22_SuggestedSubtypeHoldsMinAndMax ==
    OutOfRangeCall =>
        /\ \E i \in DOMAIN vs_out.errores :
              vs_out.errores[i].tipo = "RANGO_EXCEDIDO"
        /\ \E i \in DOMAIN vs_out.sugerencias :
              /\ InSubtypeRange(WideMin(ObservedNumbers),
                                vs_out.sugerencias[i].valor_sugerido)
              /\ InSubtypeRange(WideMax(ObservedNumbers),
                                vs_out.sugerencias[i].valor_sugerido)

\* C23: for every unit and mapping configuration (dict-valued, legacy
\* string-valued, none), the ordered column names of the INSERT statement
\* equal the ordered column names of the CREATE TABLE statement of the unit.
C23_InsertColumnsEqualCreateColumns ==
    sql_columns.insert # <<>> => sql_columns.insert = sql_columns.create

\* C24: within one run two distinct units have distinct destination table
\* names, so the unit that issues DDL or writes never works on the table of
\* another unit of the run.
C24_UnitsHaveOwnDestinationTable ==
    (spc # "idle" /\ ddl # {}) =>
        \A v \in Units \ {unit.id} : DestName(v) # DestName(unit.id)

\* the vocabulary the three stages are said to share
SharedBooleanTokens == {"true", "false", "1", "0", "yes", "no", "si", "sí",
                        "y", "n", "t", "f"}

\* C25: every token of the shared boolean vocabulary is taken as boolean by
\* infer_sql_type, raises no BIT warning in the structure validation, and
\* is converted by normalize_value_by_type to 1 or 0 without the fallback.
C25_StagesShareBooleanVocabulary ==
    voc_in.token \in SharedBooleanTokens =>
        /\ voc_out.profiled \in {"none", "BIT"}
        /\ voc_out.validated \in {"none", "ok"}
        /\ voc_out.normalized # NotRun =>
              /\ voc_out.normalized.status = "returned"
              /\ voc_out.normalized.val \in {PyInt(1), PyInt(0)}
              /\ ~voc_out.fallback

\* C26: when the save of a unit returns failure, every row its destination
\* table held when the save was called is still in the committed table.
C26_FailedSaveKeepsExistingRows ==
    (pc = "after_save" /\ save_result.returned /\ ~save_result.ok) =>
        Range(table_before.rows) \subseteq Range(tables[DestTable(unit.id)].rows)

\* C27: after the row-by-row fallback of a failed executemany and the
\* commit, no source row is in the destination table more than once.
C27_NoRowInsertedTwice ==
    \A t \in Units :
        \A i, j \in DOMAIN tables[t].rows :
            tables[t].rows[i] = tables[t].rows[j] => i = j

\* C28: in the sheet loop every recorded entry carries the process id of
\* the unit's own tracker (or none when its tracker never started), and
\* the tracker of a succeeded unit is never finalized by another unit.
C28_EntriesCarryOwnTracker ==
    source_type = "excel" =>
        /\ \A e \in Range(hojas_procesadas) :
              e.proceso_id = e.sheet /\ tracker_final[e.sheet] = "exito"
        /\ \A e \in Range(hojas_con_error) : e.proceso_id \in {0, e.sheet}

\* C29: the handler of the table loop finishes and returns (False, info),
\* also when tables were counted as failed before the exception: no step
\* of the SQL aggregator leaves its handler by raising.
C29_SqlHandlerReturns ==
    [][(source_type = "sql" /\ pc = "outer_except"
           /\ tablas_con_error.kind = "int" /\ tablas_con_error.n > 0)
         => pc' # "raised"]_vars

\* run() has returned or raised
RunTerminated == pc = "run_done"

\* at least one unit of the run was recorded as succeeded
SomeUnitSucceeded ==
    IF source_type = "excel" THEN hojas_procesadas # <<>> ELSE tablas_exitosas > 0

\* C30: run() saves status running when it starts; whenever it has
\* terminated, with no step of run() itself having failed, the saved
\* status is completed if at least one unit succeeded and failed otherwise,
\* and it returned normally only with completed; a saved status of running
\* does not stay.
C30_StatusFollowsUnits ==
    /\ [](pc = "run_log" => saved_status = "running")
    /\ []((RunTerminated /\ run_faults = {}) =>
             /\ saved_status = (IF SomeUnitSucceeded THEN "completed" ELSE "failed")
             /\ (run_exit = "returned" => saved_status = "completed"))
    /\ (saved_status = "running" ~> (saved_status # "running" \/ run_faults # {}))
====
